---- MODULE Spec2Model ----
(***************************************************************************)
(* multi-chain-balance-diff: the CLI's run (main), the balance-diff       *)
(* engine, the threshold evaluator and the watch-mode scheduler.           *)
(*                                                                         *)
(* One CLI invocation is one behaviour.  Init is the process right after   *)
(* option parsing and address resolution; every action is one turn of the  *)
(* Node.js event loop: the synchronous code that runs between two awaits,  *)
(* a timer callback, or a signal handler.  RPC answers (heights, balances, *)
(* failures) are the environment's choice.                                 *)
(***************************************************************************)
EXTENDS Integers, Sequences, FiniteSets, TLC

\* ------------------------------------------------------------------------
\* Bounds of the model
\* ------------------------------------------------------------------------
\* Largest chain height (block, slot, seqno) the node reports.
MaxHeight == 2
\* Largest raw balance (smallest units) the node reports.
MaxBalance == 1
\* Largest --count; a watch run starts at most MaxPolls + 1 ticks.
MaxPolls == 2
\* Largest number of addresses of a batch run.
MaxAddresses == 3
\* Decimal precision of the native currency (18 or 9 in the registry,
\* scaled down so that 10^Decimals stays a small integer).
Decimals == 1

\* Longest --alert-if-diff / --alert-pct string that is enumerated.
MaxThresholdLen == 3
\* Largest number of configured tokens, and of token accounts of a wallet.
MaxTokens == 2
\* Raw amounts given to the formatter are m * 10^e with m up to MaxMantissa
\* (and a few larger samples).
MaxMantissa == 3

Heights == 0..MaxHeight
Balances == 0..MaxBalance

\* ------------------------------------------------------------------------
\* Exit codes
\* ------------------------------------------------------------------------
EXIT_OK == 0
EXIT_DIFF == 1
EXIT_RPC_ERROR == 2
EXIT_SIGINT == 130
\* Exit status of a Node.js process that dies of an unhandled rejection.
EXIT_UNCAUGHT == 1
\* The process has not exited yet.
Running == -1
\* The schema version every JSON object carries.
SCHEMA_VERSION == "0.1.0"

\* ------------------------------------------------------------------------
\* Small arithmetic helpers (BigInt and Number arithmetic of the code)
\* ------------------------------------------------------------------------
Max(a, b) == IF a >= b THEN a ELSE b

RECURSIVE Pow10(_)
Pow10(n) == IF n = 0 THEN 1 ELSE 10 * Pow10(n - 1)

\* BigInt division truncates toward zero; % takes the sign of the dividend.
BigIntDiv(a, b) == IF a >= 0 THEN a \div b ELSE -((-a) \div b)
BigIntRem(a, b) == a - b * BigIntDiv(a, b)

\* A JavaScript number that is a decimal fraction: num / 10^frac.
\* (Binary rounding of doubles is not modelled: amounts are small.)
NumLess(x, y) == x.num * Pow10(y.frac) < y.num * Pow10(x.frac)
NumEq(x, y) == x.num * Pow10(y.frac) = y.num * Pow10(x.frac)

Compare(op, x, y) ==
  CASE op = ">" -> NumLess(y, x)
    [] op = ">=" -> NumLess(y, x) \/ NumEq(x, y)
    [] op = "<" -> NumLess(x, y)
    [] op = "<=" -> NumLess(x, y) \/ NumEq(x, y)
    [] OTHER -> FALSE

\* ------------------------------------------------------------------------
\* Threshold parsing and evaluation
\* ------------------------------------------------------------------------
\* Option strings are sequences of one-character strings; <<>> is an option
\* that was not given.
Digits == {"0", "1", "2", "3", "4", "5", "6", "7", "8", "9"}
DigitChars == <<"0", "1", "2", "3", "4", "5", "6", "7", "8", "9">>
DigitVal(ch) == (CHOOSE i \in 1..10 : DigitChars[i] = ch) - 1

\* The null a failed parse returns.
NullThreshold == [operator |-> "null", value |-> [num |-> 0, frac |-> 0]]

\* Length of the operator matched by (>=?|<=?)? at the start of s.
operatorLength(s) ==
  IF Len(s) >= 2 /\ s[1] \in {">", "<"} /\ s[2] = "=" THEN 2
  ELSE IF Len(s) >= 1 /\ s[1] \in {">", "<"} THEN 1
  ELSE 0

\* body matches \d+\.?\d*
matchesDecimal(body) ==
  /\ Len(body) >= 1
  /\ body[1] \in Digits
  /\ \A i \in 1..Len(body) : body[i] \in Digits \cup {"."}
  /\ Cardinality({i \in 1..Len(body) : body[i] = "."}) <= 1

RECURSIVE digitsValue(_)
digitsValue(ds) ==
  IF ds = <<>> THEN 0
  ELSE 10 * digitsValue(SubSeq(ds, 1, Len(ds) - 1)) + DigitVal(ds[Len(ds)])

\* parseFloat of a string that matched -?\d+\.?\d*
parseFloat(numStr) ==
  LET neg == numStr[1] = "-"
      body == IF neg THEN Tail(numStr) ELSE numStr
      dots == {i \in 1..Len(body) : body[i] = "."}
      dot == IF dots = {} THEN Len(body) + 1 ELSE CHOOSE i \in dots : TRUE
      ds == SubSeq(body, 1, dot - 1) \o SubSeq(body, dot + 1, Len(body))
      mag == digitsValue(ds)
  IN [num |-> IF neg THEN -mag ELSE mag, frac |-> Max(0, Len(body) - dot)]

parseThreshold_DefaultGe(thresholdStr) ==
  IF thresholdStr = <<>> THEN NullThreshold
  ELSE
    LET n == operatorLength(thresholdStr)
        rest == SubSeq(thresholdStr, n + 1, Len(thresholdStr))
        neg == Len(rest) >= 1 /\ rest[1] = "-"
        body == IF neg THEN Tail(rest) ELSE rest
    IN IF ~matchesDecimal(body) THEN NullThreshold
       ELSE [operator |-> IF n = 0 THEN ">="
                          ELSE IF n = 1 THEN thresholdStr[1]
                          ELSE IF thresholdStr[1] = ">" THEN ">=" ELSE "<=",
             value |-> parseFloat(rest)]

parseThreshold(thresholdStr) ==
  IF thresholdStr = <<>> THEN NullThreshold
  ELSE
    LET n == operatorLength(thresholdStr)
        rest == SubSeq(thresholdStr, n + 1, Len(thresholdStr))
        neg == Len(rest) >= 1 /\ rest[1] = "-"
        body == IF neg THEN Tail(rest) ELSE rest
    IN IF ~matchesDecimal(body) THEN NullThreshold
       ELSE [operator |-> IF n = 0 THEN ">"
                          ELSE IF n = 1 THEN thresholdStr[1]
                          ELSE IF thresholdStr[1] = ">" THEN ">=" ELSE "<=",
             value |-> parseFloat(rest)]

bigintToNumber(raw, decimals) ==
  LET divisor == Pow10(decimals)
      whole == BigIntDiv(raw, divisor)
      fraction == BigIntRem(raw, divisor)
  IN [num |-> whole * divisor + fraction, frac |-> decimals]

checkThreshold(diffRaw, decimals, threshold) ==
  IF threshold = NullThreshold THEN FALSE
  ELSE Compare(threshold.operator, bigintToNumber(diffRaw, decimals), threshold.value)

checkPercentageThreshold_NoZeroGuard(diffRaw, previousRaw, decimals, threshold) ==
  IF threshold = NullThreshold THEN FALSE
  ELSE IF previousRaw = 0
    THEN \/ threshold.operator \in {">", ">="} /\ diffRaw > 0
         \/ threshold.operator \in {"<", "<="} /\ diffRaw < 0
  ELSE
    LET diffValue == bigintToNumber(diffRaw, decimals)
        previousValue == bigintToNumber(previousRaw, decimals)
        pn == diffValue.num * Pow10(previousValue.frac) * 100
        pd == previousValue.num * Pow10(diffValue.frac)
        v == threshold.value
        lhs == IF pd > 0 THEN pn * Pow10(v.frac) ELSE -(pn * Pow10(v.frac))
        rhs == IF pd > 0 THEN v.num * pd ELSE -(v.num * pd)
    IN Compare(threshold.operator, [num |-> lhs, frac |-> 0], [num |-> rhs, frac |-> 0])

checkPercentageThreshold(diffRaw, previousRaw, decimals, threshold) ==
  IF threshold = NullThreshold THEN FALSE
  ELSE IF previousRaw = 0 THEN FALSE
  ELSE
    LET diffValue == bigintToNumber(diffRaw, decimals)
        previousValue == bigintToNumber(previousRaw, decimals)
        \* (diffValue / previousValue) * 100 as the fraction pn / pd
        pn == diffValue.num * Pow10(previousValue.frac) * 100
        pd == previousValue.num * Pow10(diffValue.frac)
        v == threshold.value
        \* percentChange - v has the sign of sgn(pd) * (pn*10^frac - v.num*pd)
        lhs == IF pd > 0 THEN pn * Pow10(v.frac) ELSE -(pn * Pow10(v.frac))
        rhs == IF pd > 0 THEN v.num * pd ELSE -(v.num * pd)
    IN IF previousValue.num = 0 THEN FALSE
       ELSE Compare(threshold.operator, [num |-> lhs, frac |-> 0], [num |-> rhs, frac |-> 0])

\* ------------------------------------------------------------------------
\* Errors and their classification
\* ------------------------------------------------------------------------
\* An Error object: its code ("NONE" when it has none) and its message.
ErrorSamples ==
  { [code |-> "ECONNREFUSED", message |-> "connect ECONNREFUSED"],
    [code |-> "ETIMEDOUT", message |-> "connect ETIMEDOUT"],
    [code |-> "NONE", message |-> "429 Too Many Requests"],
    [code |-> "NONE", message |-> "execution reverted"] }

\* The failures sampled for a watch tick and for an address of a batch.
TickErrorSamples ==
  { [code |-> "ECONNREFUSED", message |-> "connect ECONNREFUSED"],
    [code |-> "ETIMEDOUT", message |-> "connect ETIMEDOUT"],
    [code |-> "NONE", message |-> "execution reverted"] }
BatchErrorSamples ==
  { [code |-> "ECONNREFUSED", message |-> "connect ECONNREFUSED"],
    [code |-> "NONE", message |-> "execution reverted"] }

NoError == [code |-> "NONE", message |-> ""]

\* String.prototype.includes on the messages above (case-sensitive).
includes(message, sub) ==
  CASE message = "429 Too Many Requests" -> sub = "429"
    [] message = "rate limit exceeded" -> sub = "rate"
    [] message = "request timeout" -> sub = "timeout"
    [] OTHER -> FALSE

isRpcError(error) ==
  \/ error.code = "ENOTFOUND"
  \/ error.code = "ECONNREFUSED"
  \/ error.code = "ETIMEDOUT"
  \/ includes(error.message, "429")
  \/ includes(error.message, "rate")
  \/ includes(error.message, "timeout")

\* The classification written out in main's catch block.
mainIsRpcError(error) ==
  \/ error.code = "ENOTFOUND"
  \/ error.code = "ECONNREFUSED"
  \/ includes(error.message, "429")
  \/ includes(error.message, "rate")
  \/ includes(error.message, "timeout")

\* ------------------------------------------------------------------------
\* Network registry and adapter factory
\* ------------------------------------------------------------------------
NoNetwork == [chainType |-> "none", nativeDecimals |-> 0]

getNetwork(networkKey) ==
  CASE networkKey = "mainnet" -> [chainType |-> "evm", nativeDecimals |-> Decimals]
    [] networkKey = "solana" -> [chainType |-> "solana", nativeDecimals |-> Decimals]
    [] networkKey = "ton" -> [chainType |-> "ton", nativeDecimals |-> Decimals]
    [] OTHER -> NoNetwork

ADAPTER_MAP == {"evm", "solana"}

\* createAdapter returns an adapter of the family, or throws.
createAdapterThrows(networkConfig) == networkConfig.chainType \notin ADAPTER_MAP

isValidAddress_AcceptAll(address) == TRUE

\* Addresses are the well-formed or malformed strings of the target chain.
isValidAddress(address) == address.wellFormed

\* ------------------------------------------------------------------------
\* Balance-diff engine
\* ------------------------------------------------------------------------
Snapshot(raw) == [raw |-> raw, decimals |-> Decimals]

NoDiff == [none |-> TRUE]

getNativeBalanceDiff_Swapped(currentBlock, blocksBack, current, previous) ==
  [current |-> current,
   previous |-> previous,
   diff |-> previous.raw - current.raw,
   currentBlock |-> currentBlock,
   previousBlock |-> Max(0, currentBlock - blocksBack)]

\* The record getNativeBalanceDiff builds once both fetches have answered.
getNativeBalanceDiff(currentBlock, blocksBack, current, previous) ==
  [current |-> current,
   previous |-> previous,
   diff |-> current.raw - previous.raw,
   currentBlock |-> currentBlock,
   previousBlock |-> Max(0, currentBlock - blocksBack)]

diffSign_ZeroNegative(balanceDiff) ==
  IF balanceDiff.diff > 0 THEN "positive" ELSE "negative"

diffSign(balanceDiff) == IF balanceDiff.diff >= 0 THEN "positive" ELSE "negative"

\* ------------------------------------------------------------------------
\* The CLI process
\* ------------------------------------------------------------------------
\* A JavaScript number that may be NaN or Infinity.
Num(n) == [finite |-> TRUE, n |-> n]
NaN == [finite |-> FALSE, n |-> 0]
Infinity == [finite |-> FALSE, n |-> 1]

VARIABLES
  opts,          \* the parsed command-line options
  addresses,     \* resolveAddresses(): the target addresses, in input order
  chainHeight,   \* environment: the height the node reports during the run
  pc,            \* where main() is
  exitStatus,    \* the code the process exited with, Running before
  adapters,      \* number of adapters createAdapter has constructed
  connectCalls,  \* number of adapter.connect() calls
  engineCalls,   \* number of getNativeBalanceDiff invocations
  balanceDiff,   \* the record the diff engine returned last (single run, tick)
  lastError,     \* single run: the error main's catch block caught
  results,       \* batch run: fetchAddressData's result per address
  reordered,     \* batch run: a fetch settled before the fetch of an earlier address
  pollCount,     \* watchMode: polls started
  lastBalance,   \* watchMode: current.raw of the last successful poll
  exitCode,      \* watchMode: the exit code accumulated by the ticks
  intervalId,    \* watchMode: "null", "armed" or "cleared"
  sigintHandler, \* watchMode: the SIGINT handler is registered
  inFlight,      \* watchMode: ticks awaiting the diff engine (by start order)
  emitted,       \* what the process has written to its output, in order
  fnCall,        \* a library function called on its own: name, arguments, node
  fnResult,      \* what that call returned
  awaiting       \* the promises that call is awaiting

vars == <<opts, addresses, chainHeight, pc, exitStatus, adapters, connectCalls, engineCalls,
          balanceDiff, lastError, results, reordered, pollCount, lastBalance, exitCode,
          intervalId, sigintHandler, inFlight, emitted, fnCall, fnResult, awaiting>>

fnVars == <<fnCall, fnResult, awaiting>>
\* No library function is called on its own during a CLI run.
NoCall == [fn |-> "none"]
NotAwaiting == [stage |-> "none"]

cfgVars == <<opts, addresses, chainHeight>>
singleVars == <<balanceDiff, lastError>>
watchVars == <<pollCount, lastBalance, exitCode, intervalId, sigintHandler, inFlight>>

NoBalance == [none |-> TRUE]
Pending == [pending |-> TRUE]

\* Sampled option values.
NetworkInputs == {"mainnet", "ton", "fakenetwork"}
BlocksInputs == {NaN, Num(0), Num(1), Num(2)}
\* Batch and watch runs sample one accepted and one rejected --blocks value.
FewBlocksInputs == {NaN, Num(1)}
AlertIfDiffInputs == {<<>>, <<">", "0">>}
AlertPctInputs == {<<>>, <<"<", "-", "5", "0">>}
CountInputs == {Infinity} \cup {Num(n) : n \in 1..MaxPolls}

AddressLists(n) ==
  {[i \in 1..n |-> [id |-> i, wellFormed |-> w[i]]] : w \in [1..n -> BOOLEAN]}

InitCommon ==
  /\ chainHeight \in Heights
  /\ pc = "main"
  /\ exitStatus = Running
  /\ adapters = 0
  /\ connectCalls = 0
  /\ engineCalls = 0
  /\ balanceDiff = NoDiff
  /\ lastError = NoError
  /\ results = <<>>
  /\ reordered = FALSE
  /\ pollCount = 0
  /\ lastBalance = NoBalance
  /\ exitCode = EXIT_OK
  /\ intervalId = "null"
  /\ sigintHandler = FALSE
  /\ inFlight = {}
  /\ emitted = <<>>
  /\ fnCall = NoCall
  /\ fnResult = NoCall
  /\ awaiting = NotAwaiting

InitSingle ==
  /\ opts \in [network : NetworkInputs, blocks : BlocksInputs, tokens : BOOLEAN,
               watch : {FALSE}, count : {Infinity},
               exitOnError : {FALSE}, exitOnDiff : {FALSE}, listNetworks : {FALSE},
               alertIfDiff : AlertIfDiffInputs, alertPct : AlertPctInputs]
  /\ addresses \in AddressLists(1)
  /\ InitCommon

\* process.exit(code): nothing runs afterwards.
Exit(code) ==
  /\ pc' = "exited"
  /\ exitStatus' = code

Emit(obj) == emitted' = Append(emitted, obj)

validBlocks_AllowZero(blocksBack) == ~(~blocksBack.finite \/ blocksBack.n < 0)

\* main's check of --blocks: isNaN(blocksBack) || blocksBack < 1 is rejected.
validBlocks(blocksBack) == ~(~blocksBack.finite \/ blocksBack.n < 1)

networkConfig == getNetwork(opts.network)
blocksBack == opts.blocks.n
threshold == parseThreshold(opts.alertIfDiff)
pctThreshold == parseThreshold(opts.alertPct)

absTriggered(bd) == checkThreshold(bd.diff, networkConfig.nativeDecimals, threshold)
pctTriggered(bd) ==
  checkPercentageThreshold(bd.diff, bd.previous.raw, networkConfig.nativeDecimals, pctThreshold)
alertTriggered_AbsOnly(bd) == absTriggered(bd)

alertTriggered(bd) == absTriggered(bd) \/ pctTriggered(bd)

\* The alert member of a JSON result, present when `threshold || pctThreshold`
\* holds; <<>> stands for the null of an option that was not given.
NoAlertObject == [absent |-> TRUE]
thresholdGiven == threshold # NullThreshold \/ pctThreshold # NullThreshold

triggeredBy(bd) ==
  IF absTriggered(bd) THEN "absolute" ELSE IF pctTriggered(bd) THEN "percentage" ELSE "null"

\* The alert object of the single-address result.
singleAlertObject(bd) ==
  IF thresholdGiven
    THEN [threshold |-> opts.alertIfDiff, thresholdPct |-> opts.alertPct,
          triggered |-> alertTriggered(bd), triggeredBy |-> triggeredBy(bd)]
  ELSE NoAlertObject

\* The alert object of a batch item and of the batch output.
batchAlertObject(triggered) ==
  IF thresholdGiven
    THEN [threshold |-> opts.alertIfDiff, thresholdPct |-> opts.alertPct,
          triggered |-> triggered]
  ELSE NoAlertObject

\* What listNetworks prints.
listNetworks == [schemaVersion |-> SCHEMA_VERSION, type |-> "networks"]

\* main() up to its first await: option checks, adapter creation and the
\* validation of every address.
MainStart ==
  /\ pc = "main"
  /\ IF opts.listNetworks
       THEN Emit(listNetworks) /\ Exit(0) /\ UNCHANGED <<adapters, connectCalls>>
     ELSE IF networkConfig = NoNetwork
       THEN /\ Emit([schemaVersion |-> SCHEMA_VERSION, type |-> "error",
                      error |-> "Unknown network"])
            /\ Exit(1)
            /\ UNCHANGED <<adapters, connectCalls>>
     ELSE IF ~validBlocks(opts.blocks)
       THEN /\ Emit([schemaVersion |-> SCHEMA_VERSION, type |-> "error",
                      error |-> "Invalid blocks value"])
            /\ Exit(1)
            /\ UNCHANGED <<adapters, connectCalls>>
     ELSE IF createAdapterThrows(networkConfig)
       THEN UNCHANGED <<emitted, adapters, connectCalls>> /\ Exit(EXIT_UNCAUGHT)
     ELSE IF \E i \in 1..Len(addresses) : ~isValidAddress(addresses[i])
       THEN /\ Emit([schemaVersion |-> SCHEMA_VERSION, type |-> "error",
                      error |-> "Invalid address"])
            /\ Exit(1)
            /\ adapters' = adapters + 1
            /\ UNCHANGED connectCalls
     ELSE /\ pc' = "connecting"
          /\ adapters' = adapters + 1
          /\ connectCalls' = connectCalls + 1
          /\ UNCHANGED <<exitStatus, emitted>>
  /\ UNCHANGED <<cfgVars, fnVars, engineCalls, singleVars, results, reordered, watchVars>>

connectFailExitCode == EXIT_RPC_ERROR

ConnectFail ==
  /\ pc = "connecting"
  /\ \E error \in ErrorSamples :
       /\ Emit([schemaVersion |-> SCHEMA_VERSION, type |-> "error", error |-> "Connection failed",
                exitCode |-> EXIT_RPC_ERROR])
       /\ Exit(connectFailExitCode)
  /\ UNCHANGED <<cfgVars, fnVars, adapters, connectCalls, engineCalls, singleVars, results, reordered, watchVars>>

\* ------------------------------------------------------------------------
\* Single-address run
\* ------------------------------------------------------------------------
catchExitCode_AlwaysDiff(error) == EXIT_DIFF

singleExitCode(triggered) == IF triggered THEN EXIT_DIFF ELSE EXIT_OK
catchExitCode(error) == IF mainIsRpcError(error) THEN EXIT_RPC_ERROR ELSE EXIT_DIFF

\* connect() answered; one address, no --watch: the diff engine is invoked.
ConnectOkSingle ==
  /\ pc = "connecting"
  /\ ~opts.watch
  /\ Len(addresses) = 1
  /\ pc' = "single_fetch"
  /\ engineCalls' = engineCalls + 1
  /\ UNCHANGED <<cfgVars, fnVars, adapters, exitStatus, connectCalls, singleVars, results, reordered, watchVars, emitted>>

\* The rest of the try block once the record (and the tokens) are there.
SingleOutput(bd) ==
  /\ Emit([schemaVersion |-> SCHEMA_VERSION, type |-> "result",
           address |-> addresses[1].id, balanceDiff |-> bd,
           diffSign |-> diffSign(bd),
           alert |-> alertTriggered(bd), alertObject |-> singleAlertObject(bd)])
  /\ Exit(singleExitCode(alertTriggered(bd)))

SingleFetchOk ==
  /\ pc = "single_fetch"
  /\ \E cur \in Balances, prev \in Balances :
       LET bd == getNativeBalanceDiff(chainHeight, blocksBack, Snapshot(cur), Snapshot(prev))
       IN /\ balanceDiff' = bd
          /\ IF opts.tokens
               THEN pc' = "single_tokens" /\ UNCHANGED <<exitStatus, emitted>>
               ELSE SingleOutput(bd)
  /\ UNCHANGED <<cfgVars, fnVars, adapters, connectCalls, engineCalls, lastError, results, reordered, watchVars>>

\* getTokenBalances answered (it catches every lookup failure itself).
SingleTokensDone ==
  /\ pc = "single_tokens"
  /\ SingleOutput(balanceDiff)
  /\ UNCHANGED <<cfgVars, fnVars, adapters, connectCalls, engineCalls, singleVars, results, reordered, watchVars>>

SingleFetchFail ==
  /\ pc = "single_fetch"
  /\ \E error \in ErrorSamples :
       /\ lastError' = error
       /\ Emit([schemaVersion |-> SCHEMA_VERSION, type |-> "error",
                error |-> error.message, exitCode |-> catchExitCode(error)])
       /\ Exit(catchExitCode(error))
  /\ UNCHANGED <<cfgVars, fnVars, adapters, connectCalls, engineCalls, balanceDiff, results, reordered, watchVars>>

NextSingle ==
  \/ MainStart
  \/ ConnectFail
  \/ ConnectOkSingle
  \/ SingleFetchOk
  \/ SingleTokensDone
  \/ SingleFetchFail

SpecSingle == InitSingle /\ [][NextSingle]_vars

\* ------------------------------------------------------------------------
\* Single-address run over enumerated threshold strings
\* ------------------------------------------------------------------------
\* The characters of a threshold string: the ones the pattern of
\* parseThreshold knows, two digits, and one character it does not know.
ThresholdAlphabet == {">", "<", "=", "-", ".", "0", "1", "x"}
ThresholdStrings == UNION {[1..k -> ThresholdAlphabet] : k \in 0..MaxThresholdLen}
\* The other threshold option takes one of: absent, malformed, "0", "<0".
ThresholdSamples == {<<>>, <<"x">>, <<"0">>, <<"<", "0">>}

\* A run on mainnet with a well-formed address, --no-tokens and --blocks 1,
\* one threshold option being any string of the alphabet.
InitThreshold ==
  /\ \E s \in ThresholdStrings, t \in ThresholdSamples, swap \in BOOLEAN :
       opts = [network |-> "mainnet", blocks |-> Num(1), tokens |-> FALSE,
               watch |-> FALSE, count |-> Infinity,
               exitOnError |-> FALSE, exitOnDiff |-> FALSE, listNetworks |-> FALSE,
               alertIfDiff |-> IF swap THEN t ELSE s,
               alertPct |-> IF swap THEN s ELSE t]
  /\ addresses = <<[id |-> 1, wellFormed |-> TRUE]>>
  /\ InitCommon
  /\ chainHeight = MaxHeight

\* The node answers every request.
NextThreshold ==
  \/ MainStart
  \/ ConnectOkSingle
  \/ SingleFetchOk

SpecThreshold == InitThreshold /\ [][NextThreshold]_vars

\* ------------------------------------------------------------------------
\* Multi-address (batch) run
\* ------------------------------------------------------------------------
\* A batch run with --no-tokens, at the node's head height.
InitBatch ==
  /\ opts \in [network : NetworkInputs, blocks : FewBlocksInputs, tokens : {FALSE},
               watch : {FALSE}, count : {Infinity},
               exitOnError : {FALSE}, exitOnDiff : {FALSE}, listNetworks : {FALSE},
               alertIfDiff : AlertIfDiffInputs, alertPct : AlertPctInputs]
  /\ \E n \in 2..MaxAddresses : addresses \in AddressLists(n)
  /\ InitCommon
  /\ chainHeight = MaxHeight

\* What fetchAddressData returns for an address.
ErrorEntry(address, message) ==
  [address |-> address.id, error |-> message, balanceDiff |-> NoDiff]
DataEntry(address, bd) ==
  [address |-> address.id, error |-> "", balanceDiff |-> bd]
hasError(r) == r.error # ""

\* fetchAddressData up to its first await.
fetchAddressDataStart(address) ==
  IF ~isValidAddress(address) THEN ErrorEntry(address, "Invalid address") ELSE Pending

anyAlertTriggered(rs) ==
  \E i \in 1..Len(rs) : ~hasError(rs[i]) /\ alertTriggered(rs[i].balanceDiff)

batchExitCode(rs) == IF anyAlertTriggered(rs) THEN EXIT_DIFF ELSE EXIT_OK

\* buildMultiAddressJsonOutput over the per-address items.
buildMultiAddressJsonOutput(rs) ==
  [schemaVersion |-> SCHEMA_VERSION, type |-> "batch",
   addresses |-> [i \in 1..Len(rs) |->
                    IF hasError(rs[i]) THEN rs[i]
                    ELSE [address |-> rs[i].address, error |-> "",
                          balanceDiff |-> rs[i].balanceDiff,
                          alert |-> alertTriggered(rs[i].balanceDiff),
                          alertObject |->
                            batchAlertObject(alertTriggered(rs[i].balanceDiff))]],
   summary |-> [totalAddresses |-> Len(rs),
                successCount |-> Cardinality({i \in 1..Len(rs) : ~hasError(rs[i])}),
                errorCount |-> Cardinality({i \in 1..Len(rs) : hasError(rs[i])})],
   alert |-> anyAlertTriggered(rs),
   alertObject |-> batchAlertObject(anyAlertTriggered(rs))]

\* Promise.all resolved: thresholds, output and exit.
BatchOutput(rs) ==
  /\ Emit(buildMultiAddressJsonOutput(rs))
  /\ Exit(batchExitCode(rs))

\* Promise.all keeps the value of the i-th promise at index i of its result,
\* whenever that promise settles.
promiseAllSettle_CompletionOrder(rs, i, value) ==
  LET first == CHOOSE k \in 1..Len(rs) : rs[k] = Pending /\ \A j \in 1..(k - 1) : rs[j] # Pending
  IN [rs EXCEPT ![first] = value]

promiseAllSettle(rs, i, value) == [rs EXCEPT ![i] = value]

BatchSettle(rs) ==
  /\ results' = rs
  /\ IF \A i \in 1..Len(rs) : rs[i] # Pending
       THEN BatchOutput(rs)
       ELSE UNCHANGED <<pc, exitStatus, emitted>>

\* connect() answered; several addresses, no --watch: every address's
\* fetchAddressData is started.
ConnectOkBatch ==
  /\ pc = "connecting"
  /\ ~opts.watch
  /\ Len(addresses) > 1
  /\ LET rs == [i \in 1..Len(addresses) |-> fetchAddressDataStart(addresses[i])]
     IN /\ engineCalls' = engineCalls + Cardinality({i \in 1..Len(rs) : rs[i] = Pending})
        /\ IF \A i \in 1..Len(rs) : rs[i] # Pending
             THEN results' = rs /\ BatchOutput(rs)
             ELSE results' = rs /\ pc' = "batch" /\ UNCHANGED <<exitStatus, emitted>>
  /\ UNCHANGED <<cfgVars, fnVars, adapters, connectCalls, singleVars, reordered, watchVars>>

\* One address's diff engine answered.
BatchFetchOk ==
  /\ pc = "batch"
  /\ \E i \in 1..Len(results), cur \in Balances, prev \in Balances :
       /\ results[i] = Pending
       /\ reordered' = (reordered \/ \E j \in 1..(i - 1) : results[j] = Pending)
       /\ BatchSettle(promiseAllSettle(results, i,
            DataEntry(addresses[i],
              getNativeBalanceDiff(chainHeight, blocksBack, Snapshot(cur), Snapshot(prev)))))
  /\ UNCHANGED <<cfgVars, fnVars, adapters, connectCalls, engineCalls, singleVars, watchVars>>

\* One address's diff engine failed: fetchAddressData catches the error.
BatchFetchFail ==
  /\ pc = "batch"
  /\ \E i \in 1..Len(results), error \in BatchErrorSamples :
       /\ results[i] = Pending
       /\ reordered' = (reordered \/ \E j \in 1..(i - 1) : results[j] = Pending)
       /\ BatchSettle(promiseAllSettle(results, i, ErrorEntry(addresses[i], error.message)))
  /\ UNCHANGED <<cfgVars, fnVars, adapters, connectCalls, engineCalls, singleVars, watchVars>>

NextBatch ==
  \/ MainStart
  \/ ConnectFail
  \/ ConnectOkBatch
  \/ BatchFetchOk
  \/ BatchFetchFail

SpecBatch == InitBatch /\ [][NextBatch]_vars

\* A batch run on mainnet that reaches Promise.all: well-formed addresses,
\* an accepted --blocks value.
InitBatchOrder ==
  /\ opts \in [network : {"mainnet"}, blocks : {Num(1)}, tokens : {FALSE},
               watch : {FALSE}, count : {Infinity},
               exitOnError : {FALSE}, exitOnDiff : {FALSE}, listNetworks : {FALSE},
               alertIfDiff : AlertIfDiffInputs, alertPct : {<<>>}]
  /\ \E n \in 2..MaxAddresses : addresses = [i \in 1..n |-> [id |-> i, wellFormed |-> TRUE]]
  /\ InitCommon
  /\ chainHeight = MaxHeight

SpecBatchOrder == InitBatchOrder /\ [][NextBatch]_vars

\* ------------------------------------------------------------------------
\* Watch mode
\* ------------------------------------------------------------------------
InitWatch ==
  /\ opts \in [network : NetworkInputs, blocks : FewBlocksInputs, tokens : {FALSE},
               watch : {TRUE}, count : CountInputs,
               exitOnError : BOOLEAN, exitOnDiff : BOOLEAN, listNetworks : {FALSE},
               alertIfDiff : AlertIfDiffInputs, alertPct : AlertPctInputs]
  /\ \E n \in 1..2 : addresses \in AddressLists(n)
  /\ InitCommon
  /\ chainHeight = MaxHeight

maxPolls == opts.count

\* pollCount >= maxPolls, maxPolls being a count or Infinity.
countReached_Exact(n) == maxPolls.finite /\ n = maxPolls.n
countReached(n) == maxPolls.finite /\ n >= maxPolls.n

\* 128 + the signal number: the status of a process SIGINT kills.
KilledBySigint == 128 + 2

\* buildPollResult, tagged with the poll number (and, for the record, with
\* the start order of the tick that emits it).
PollResult(id, bd) ==
  [schemaVersion |-> SCHEMA_VERSION, type |-> "poll", poll |-> pollCount, tick |-> id, error |-> "",
   isRpcError |-> FALSE, alert |-> alertTriggered(bd)]
PollError_Unversioned(id, error) ==
  [type |-> "poll", poll |-> pollCount, tick |-> id, error |-> error.message,
   isRpcError |-> isRpcError(error), alert |-> FALSE]
PollError(id, error) ==
  [schemaVersion |-> SCHEMA_VERSION, type |-> "poll", poll |-> pollCount, tick |-> id,
   error |-> error.message, isRpcError |-> isRpcError(error), alert |-> FALSE]
WatchEnd(code, reason) ==
  [schemaVersion |-> SCHEMA_VERSION, type |-> "watch_end", polls |-> pollCount,
   exitCode |-> code, reason |-> reason]

exitCodeAfterPoll_LastOnly(code, triggered) == IF triggered THEN EXIT_DIFF ELSE EXIT_OK
exitOnDiffFires_Never(triggered) == FALSE
exitOnErrorFires_AnyError(error) == opts.exitOnError

\* exitCode after a successful poll (lines 841-850).
exitCodeAfterPoll(code, triggered) == IF triggered THEN EXIT_DIFF ELSE code
\* shouldExit after a successful poll.
exitOnDiffFires(triggered) == triggered /\ opts.exitOnDiff
\* shouldExit after a failed poll (line 861).
exitOnErrorFires(error) == opts.exitOnError /\ isRpcError(error)

exitCodeAfterError_Reset(code, error) ==
  IF opts.exitOnError /\ isRpcError(error) THEN EXIT_RPC_ERROR ELSE EXIT_OK
exitCodeAfterError_KeepDiff(code, error) ==
  IF opts.exitOnError /\ isRpcError(error) /\ code # EXIT_DIFF THEN EXIT_RPC_ERROR ELSE code

\* exitCode after a failed poll (lines 861-864).
exitCodeAfterError(code, error) == IF exitOnErrorFires(error) THEN EXIT_RPC_ERROR ELSE code

TickEnd_ArmBeforeExit(result, shouldExit, code) ==
  /\ exitCode' = code
  /\ IF shouldExit \/ countReached(pollCount)
       THEN /\ intervalId' = IF pc = "watch_initial" THEN "armed" ELSE "cleared"
            /\ emitted' = emitted \o <<result, WatchEnd(code, "")>>
            /\ Exit(code)
            /\ UNCHANGED sigintHandler
       ELSE /\ emitted' = Append(emitted, result)
            /\ IF pc = "watch_initial"
                 THEN /\ intervalId' = "armed"
                      /\ sigintHandler' = TRUE
                      /\ pc' = "watch_polling"
                 ELSE UNCHANGED <<intervalId, sigintHandler, pc>>
            /\ UNCHANGED exitStatus

\* The end of tick(): the count check, and either the exit path or the
\* return to watchMode, which after the initial tick arms the timer and
\* registers the SIGINT handler.
TickEnd(result, shouldExit, code) ==
  /\ exitCode' = code
  /\ IF shouldExit \/ countReached(pollCount)
       THEN /\ intervalId' = IF intervalId = "armed" THEN "cleared" ELSE intervalId
            /\ emitted' = emitted \o <<result, WatchEnd(code, "")>>
            /\ Exit(code)
            /\ UNCHANGED sigintHandler
       ELSE /\ emitted' = Append(emitted, result)
            /\ IF pc = "watch_initial"
                 THEN /\ intervalId' = "armed"
                      /\ sigintHandler' = TRUE
                      /\ pc' = "watch_polling"
                 ELSE UNCHANGED <<intervalId, sigintHandler, pc>>
            /\ UNCHANGED exitStatus

\* connect() answered under --watch: several addresses are refused, else
\* watchMode starts and its initial tick invokes the diff engine.
ConnectOkWatch ==
  /\ pc = "connecting"
  /\ opts.watch
  /\ IF Len(addresses) > 1
       THEN /\ Exit(1)
            /\ UNCHANGED <<emitted, pollCount, inFlight, engineCalls>>
       ELSE /\ Emit([schemaVersion |-> SCHEMA_VERSION, type |-> "watch_start"])
            /\ pollCount' = pollCount + 1
            /\ inFlight' = {pollCount + 1}
            /\ engineCalls' = engineCalls + 1
            /\ pc' = "watch_initial"
            /\ UNCHANGED exitStatus
  /\ UNCHANGED <<cfgVars, fnVars, adapters, connectCalls, singleVars, results, reordered, lastBalance, exitCode,
                 intervalId, sigintHandler>>

\* The interval timer fires: a tick starts and invokes the diff engine.
TimerFire ==
  /\ pc = "watch_polling"
  /\ intervalId = "armed"
  /\ pollCount <= MaxPolls
  /\ pollCount' = pollCount + 1
  /\ inFlight' = inFlight \cup {pollCount + 1}
  /\ engineCalls' = engineCalls + 1
  /\ UNCHANGED <<cfgVars, fnVars, adapters, pc, exitStatus, connectCalls, singleVars, results, reordered, lastBalance,
                 exitCode, intervalId, sigintHandler, emitted>>

\* A tick's diff engine answered with a record.
TickOk ==
  /\ pc \in {"watch_initial", "watch_polling"}
  /\ \E id \in inFlight, cur \in Balances, prev \in Balances :
       LET bd == getNativeBalanceDiff(chainHeight, blocksBack, Snapshot(cur), Snapshot(prev))
           triggered == alertTriggered(bd)
       IN /\ inFlight' = inFlight \ {id}
          /\ balanceDiff' = bd
          /\ lastBalance' = [raw |-> bd.current.raw]
          /\ TickEnd(PollResult(id, bd), exitOnDiffFires(triggered),
                     exitCodeAfterPoll(exitCode, triggered))
  /\ UNCHANGED <<cfgVars, fnVars, adapters, connectCalls, engineCalls, lastError, results, reordered, pollCount>>

\* A tick's diff engine failed: the catch block of tick().
TickFail ==
  /\ pc \in {"watch_initial", "watch_polling"}
  /\ \E id \in inFlight, error \in TickErrorSamples :
       /\ inFlight' = inFlight \ {id}
       /\ TickEnd(PollError(id, error), exitOnErrorFires(error),
                  exitCodeAfterError(exitCode, error))
  /\ UNCHANGED <<cfgVars, fnVars, adapters, connectCalls, engineCalls, singleVars, results, reordered, pollCount,
                 lastBalance>>

Sigint_NoExit ==
  /\ pc \in {"watch_initial", "watch_polling"}
  /\ IF sigintHandler
       THEN /\ intervalId' = IF intervalId = "armed" THEN "cleared" ELSE intervalId
            /\ Emit(WatchEnd(EXIT_SIGINT, "SIGINT"))
            /\ UNCHANGED <<pc, exitStatus>>
       ELSE /\ Exit(KilledBySigint)
            /\ UNCHANGED <<intervalId, emitted>>
  /\ UNCHANGED <<cfgVars, fnVars, adapters, connectCalls, engineCalls, singleVars, results, reordered, pollCount,
                 lastBalance, exitCode, sigintHandler, inFlight>>

\* SIGINT arrives.  Once watchMode has registered its handler the handler
\* runs; before that (the initial tick is in flight) the signal's default
\* disposition kills the process.
Sigint ==
  /\ pc \in {"watch_initial", "watch_polling"}
  /\ IF sigintHandler
       THEN /\ intervalId' = IF intervalId = "armed" THEN "cleared" ELSE intervalId
            /\ Emit(WatchEnd(EXIT_SIGINT, "SIGINT"))
            /\ Exit(EXIT_SIGINT)
       ELSE /\ Exit(KilledBySigint)
            /\ UNCHANGED <<intervalId, emitted>>
  /\ UNCHANGED <<cfgVars, fnVars, adapters, connectCalls, engineCalls, singleVars, results, reordered, pollCount,
                 lastBalance, exitCode, sigintHandler, inFlight>>

NextWatch ==
  \/ MainStart
  \/ ConnectFail
  \/ ConnectOkWatch
  \/ TimerFire
  \/ TickOk
  \/ TickFail
  \/ Sigint

SpecWatch == InitWatch /\ [][NextWatch]_vars

\* A watch run with --count N, N a positive integer, on one well-formed
\* address of mainnet, without --exit-on-diff: only the count and
\* --exit-on-error end it.
InitWatchCount ==
  /\ opts \in [network : {"mainnet"}, blocks : {Num(1)}, tokens : {FALSE},
               watch : {TRUE}, count : {Num(n) : n \in 1..MaxPolls},
               exitOnError : BOOLEAN, exitOnDiff : {FALSE}, listNetworks : {FALSE},
               alertIfDiff : AlertIfDiffInputs, alertPct : {<<>>}]
  /\ addresses = <<[id |-> 1, wellFormed |-> TRUE]>>
  /\ InitCommon
  /\ chainHeight = MaxHeight

\* Every RPC call of a tick eventually completes, with a record or with an
\* error, and the interval timer keeps firing while it is armed.
SpecWatchCount ==
  /\ InitWatchCount
  /\ [][NextWatch]_vars
  /\ WF_vars(TickOk \/ TickFail)
  /\ WF_vars(TimerFire)

\* ------------------------------------------------------------------------
\* The CLI in any of its three modes
\* ------------------------------------------------------------------------
InitCli == InitSingle \/ InitBatch \/ InitWatch

NextCli ==
  \/ MainStart
  \/ ConnectFail
  \/ ConnectOkSingle
  \/ SingleFetchOk
  \/ SingleTokensDone
  \/ SingleFetchFail
  \/ ConnectOkBatch
  \/ BatchFetchOk
  \/ BatchFetchFail
  \/ ConnectOkWatch
  \/ TimerFire
  \/ TickOk
  \/ TickFail
  \/ Sigint

\* --list-networks, with or without an address.
InitListNetworks ==
  /\ opts \in [network : NetworkInputs, blocks : FewBlocksInputs, tokens : {FALSE},
               watch : BOOLEAN, count : {Infinity},
               exitOnError : {FALSE}, exitOnDiff : {FALSE}, listNetworks : {TRUE},
               alertIfDiff : {<<>>}, alertPct : {<<>>}]
  /\ addresses \in {<<>>} \cup AddressLists(1)
  /\ InitCommon

\* Every kind of run, without thresholds and early-exit flags and with at
\* most two addresses.
InitJson ==
  \/ InitListNetworks
  \/ /\ InitCli
     /\ opts.alertIfDiff = <<>>
     /\ opts.alertPct = <<>>
     /\ ~opts.exitOnError
     /\ ~opts.exitOnDiff
     /\ Len(addresses) <= 2

SpecJson == InitJson /\ [][NextCli]_vars

\* The runs that get as far as the balance fetch whatever the mode: a known
\* network, a valid --blocks, well-formed addresses (at most two), and
\* neither --exit-on-error nor --exit-on-diff.
InitAlert ==
  /\ InitCli
  /\ opts.network = "mainnet"
  /\ opts.blocks = Num(1)
  /\ ~opts.exitOnError
  /\ ~opts.exitOnDiff
  /\ Len(addresses) <= 2
  /\ \A i \in 1..Len(addresses) : isValidAddress(addresses[i])

SpecAlert == InitAlert /\ [][NextCli]_vars

\* ------------------------------------------------------------------------
\* Library functions called on their own
\* ------------------------------------------------------------------------
\* No CLI run is going on.
NoProcess ==
  /\ opts = [network |-> "mainnet", blocks |-> Num(1), tokens |-> TRUE,
             watch |-> FALSE, count |-> Infinity,
             exitOnError |-> FALSE, exitOnDiff |-> FALSE, listNetworks |-> FALSE,
             alertIfDiff |-> <<>>, alertPct |-> <<>>]
  /\ addresses = <<>>
  /\ chainHeight = 0
  /\ pc = "library"
  /\ exitStatus = Running
  /\ adapters = 0
  /\ connectCalls = 0
  /\ engineCalls = 0
  /\ balanceDiff = NoDiff
  /\ lastError = NoError
  /\ results = <<>>
  /\ reordered = FALSE
  /\ pollCount = 0
  /\ lastBalance = NoBalance
  /\ exitCode = EXIT_OK
  /\ intervalId = "null"
  /\ sigintHandler = FALSE
  /\ inFlight = {}
  /\ emitted = <<>>

processVars == <<pc, exitStatus, adapters, connectCalls, engineCalls, balanceDiff, lastError, results, reordered,
                 pollCount, lastBalance, exitCode, intervalId, sigintHandler, inFlight,
                 emitted>>

\* The call returns.
Return(value) ==
  /\ fnResult' = [value |-> value]
  /\ UNCHANGED <<cfgVars, processVars, fnCall, awaiting>>

\* ------------------------------------------------------------------------
\* getTokenBalances of the three adapters
\* ------------------------------------------------------------------------
\* The configured tokens: token i has contract (or mint) address i.
TokenConfigs(n) == [i \in 1..n |-> [symbol |-> i, address |-> i]]

\* An EVM or TON node: per configured token the wallet's balance, and
\* whether the node fails the lookup.
TokenLedgers(n) == [1..n -> [raw : Balances, fails : BOOLEAN]]
\* A Solana node: the wallet's token accounts (some of a mint that is not
\* configured), and whether getParsedTokenAccountsByOwner fails.
TokenAccounts ==
  UNION {[1..k -> [mint : 1..(MaxTokens + 1), amount : Balances]] : k \in 0..MaxTokens}
SolanaNodes == [accounts : TokenAccounts, fails : BOOLEAN]

NullToken == [null |-> TRUE]

\* EVMAdapter._getTokenBalance: null when the contract call throws.
EVMAdapter_getTokenBalance(tokenConfig, entry) ==
  IF entry.fails THEN NullToken ELSE [symbol |-> tokenConfig.symbol, raw |-> entry.raw]

EVMAdapter_keeps(result) == result # NullToken /\ result.raw > 0

EVMAdapter_getTokenBalances_AllOrNothing(tokens, node) ==
  IF \E i \in 1..Len(tokens) : node[i].fails THEN <<>>
  ELSE SelectSeq([i \in 1..Len(tokens) |-> EVMAdapter_getTokenBalance(tokens[i], node[i])],
                 EVMAdapter_keeps)

EVMAdapter_getTokenBalances(tokens, node) ==
  SelectSeq([i \in 1..Len(tokens) |-> EVMAdapter_getTokenBalance(tokens[i], node[i])],
            EVMAdapter_keeps)

\* SolanaAdapter.getTokenBalances: the accounts of configured mints that
\* hold something, in the node's order; [] when the request fails.
SolanaAdapter_getTokenBalances(tokens, node) ==
  IF node.fails THEN <<>>
  ELSE
    LET tokenLookup == {tokens[i].address : i \in 1..Len(tokens)}
        keeps(account) == account.mint \in tokenLookup /\ account.amount > 0
        kept == SelectSeq(node.accounts, keeps)
    IN [i \in 1..Len(kept) |->
          [symbol |-> (CHOOSE j \in 1..Len(tokens) : tokens[j].address = kept[i].mint),
           raw |-> kept[i].amount]]

\* TonAdapter.getTokenBalances returns [] whatever it is given.
TonAdapter_getTokenBalances(tokens, node) == <<>>

InitTokens ==
  /\ NoProcess
  /\ \E n \in 0..MaxTokens :
       \/ \E a \in {"evm", "ton"}, node \in TokenLedgers(n) :
            fnCall = [fn |-> "getTokenBalances", adapter |-> a,
                      tokens |-> TokenConfigs(n), node |-> node]
       \/ \E node \in SolanaNodes :
            fnCall = [fn |-> "getTokenBalances", adapter |-> "solana",
                      tokens |-> TokenConfigs(n), node |-> node]
  /\ fnResult = Pending
  /\ awaiting = NotAwaiting

EvmGetTokenBalances ==
  /\ fnResult = Pending
  /\ fnCall.adapter = "evm"
  /\ Return(EVMAdapter_getTokenBalances(fnCall.tokens, fnCall.node))

SolanaGetTokenBalances ==
  /\ fnResult = Pending
  /\ fnCall.adapter = "solana"
  /\ Return(SolanaAdapter_getTokenBalances(fnCall.tokens, fnCall.node))

TonGetTokenBalances ==
  /\ fnResult = Pending
  /\ fnCall.adapter = "ton"
  /\ Return(TonAdapter_getTokenBalances(fnCall.tokens, fnCall.node))

NextTokens ==
  \/ EvmGetTokenBalances
  \/ SolanaGetTokenBalances
  \/ TonGetTokenBalances

SpecTokens == InitTokens /\ [][NextTokens]_vars

\* ------------------------------------------------------------------------
\* Formatting of raw amounts
\* ------------------------------------------------------------------------
\* A BigInt m * 10^e, so that amounts of 18 decimals can be written down.
BigInt(m, e) == [m |-> m, e |-> e]
BigIntSub(a, b) == [m |-> a.m - b.m, e |-> a.e]
BigIntAbs(a) == [m |-> IF a.m < 0 THEN -a.m ELSE a.m, e |-> a.e]

zeros(k) == [i \in 1..k |-> "0"]

\* Number.prototype.toString of a non-negative integer.
RECURSIVE toString(_)
toString(n) ==
  IF n < 10 THEN <<DigitChars[n + 1]>>
  ELSE Append(toString(n \div 10), DigitChars[(n % 10) + 1])

\* BigInt.prototype.toString of a non-negative BigInt.
BigIntToString(a) == IF a.m = 0 THEN <<"0">> ELSE toString(a.m) \o zeros(a.e)

\* replace(/0+$/, '')
RECURSIVE trimZeros(_)
trimZeros(str) ==
  IF str # <<>> /\ str[Len(str)] = "0" THEN trimZeros(SubSeq(str, 1, Len(str) - 1)) ELSE str

\* slice(0, n)
slice(str, n) == SubSeq(str, 1, IF Len(str) < n THEN Len(str) ELSE n)

\* formatBigInt on a non-negative value: value / 10^decimals and
\* value % 10^decimals are the decimal string cut decimals digits from
\* its end.
formatBigInt(value, decimals) ==
  LET ds == BigIntToString(value)
      n == Len(ds)
      whole == IF n > decimals THEN SubSeq(ds, 1, n - decimals) ELSE <<"0">>
      fractionStr == IF n > decimals THEN SubSeq(ds, n - decimals + 1, n)
                     ELSE zeros(decimals - n) \o ds
      trimmed == slice(trimZeros(fractionStr), 6)
  IN IF \A i \in 1..Len(fractionStr) : fractionStr[i] = "0" THEN whole
     ELSE whole \o <<".">> \o trimmed

\* The native.diff and native.diffSign members buildJsonOutput renders.
buildJsonOutput(bd, decimals) ==
  [diff |-> formatBigInt(BigIntAbs(bd.diff), decimals),
   diffSign |-> diffSign([diff |-> bd.diff.m])]

\* Sampled mantissas, exponents and decimals (18: ETH, 7: more than the six
\* digits formatBigInt keeps).
Mantissas == (0..MaxMantissa) \cup {98, 100, 1234567}
Exponents == {0, 16}
FormatDecimals == {0, 2, 7, 18}

InitFormat ==
  /\ NoProcess
  /\ \E e \in Exponents, d \in FormatDecimals :
       \/ \E m \in Mantissas :
            fnCall = [fn |-> "formatBigInt", value |-> BigInt(m, e), decimals |-> d]
       \/ \E cur \in Mantissas, prev \in Mantissas :
            fnCall = [fn |-> "buildJsonOutput", current |-> BigInt(cur, e),
                      previous |-> BigInt(prev, e), decimals |-> d]
  /\ fnResult = Pending
  /\ awaiting = NotAwaiting

FormatBigInt ==
  /\ fnResult = Pending
  /\ fnCall.fn = "formatBigInt"
  /\ Return(formatBigInt(fnCall.value, fnCall.decimals))

BuildJsonOutput ==
  /\ fnResult = Pending
  /\ fnCall.fn = "buildJsonOutput"
  /\ Return(buildJsonOutput([current |-> fnCall.current, previous |-> fnCall.previous,
                             diff |-> BigIntSub(fnCall.current, fnCall.previous)],
                            fnCall.decimals))

NextFormat ==
  \/ FormatBigInt
  \/ BuildJsonOutput

SpecFormat == InitFormat /\ [][NextFormat]_vars

\* ------------------------------------------------------------------------
\* The adapter factory called on its own
\* ------------------------------------------------------------------------
\* The keys of the network registry, by chain family.
EvmNetworks == {"mainnet", "polygon", "sepolia", "base", "arbitrum", "optimism", "bnb",
                "avalanche", "fantom", "zksync"}
SolanaNetworks == {"solana", "helium", "solana-devnet"}
TonNetworks == {"ton", "ton-testnet"}

networks ==
  [key \in EvmNetworks \cup SolanaNetworks \cup TonNetworks |->
     [key |-> key,
      chainType |-> IF key \in EvmNetworks THEN "evm"
                    ELSE IF key \in SolanaNetworks THEN "solana" ELSE "ton"]]

\* The chain families present in the registry.
RegistryFamilies == {networks[key].chainType : key \in DOMAIN networks}

\* The descriptors handed to createAdapter: the registry's, one without a
\* chainType and one of a family nobody registered.
Descriptors ==
  {networks[key] : key \in DOMAIN networks}
    \cup {[key |-> "legacy", chainType |-> "undefined"],
          [key |-> "custom", chainType |-> "cosmos"]}

DEFAULT_TIMEOUT_MS == 30000
\* options.timeoutMs: 0 stands for an absent (falsy) value.
TimeoutInputs == {0, 5000, 30000}

Thrown(message) == [threw |-> message]

\* An adapter object: what getChainType() answers, and the constructor's
\* fields.
Adapter(chainType, descriptor, options) ==
  [chainType |-> chainType, networkConfig |-> descriptor,
   timeoutMs |-> IF options.timeoutMs # 0 THEN options.timeoutMs ELSE DEFAULT_TIMEOUT_MS]

createAdapter(descriptor, options) ==
  LET chainType == IF descriptor.chainType = "undefined" THEN "evm" ELSE descriptor.chainType
  IN IF chainType \notin ADAPTER_MAP THEN Thrown("Unsupported chain type")
     ELSE Adapter(chainType, descriptor, options)

getSupportedChainTypes == ADAPTER_MAP
isChainTypeSupported(chainType) == chainType \in ADAPTER_MAP

InitFactory ==
  /\ NoProcess
  /\ \/ \E descriptor \in Descriptors, t \in TimeoutInputs :
          fnCall = [fn |-> "createAdapter", networkConfig |-> descriptor,
                    options |-> [timeoutMs |-> t]]
     \/ fnCall = [fn |-> "getSupportedChainTypes"]
     \/ \E chainType \in RegistryFamilies \cup {"cosmos"} :
          fnCall = [fn |-> "isChainTypeSupported", chainType |-> chainType]
  /\ fnResult = Pending
  /\ awaiting = NotAwaiting

CreateAdapter ==
  /\ fnResult = Pending
  /\ fnCall.fn = "createAdapter"
  /\ Return(createAdapter(fnCall.networkConfig, fnCall.options))

GetSupportedChainTypes ==
  /\ fnResult = Pending
  /\ fnCall.fn = "getSupportedChainTypes"
  /\ Return(getSupportedChainTypes)

IsChainTypeSupported ==
  /\ fnResult = Pending
  /\ fnCall.fn = "isChainTypeSupported"
  /\ Return(isChainTypeSupported(fnCall.chainType))

NextFactory ==
  \/ CreateAdapter
  \/ GetSupportedChainTypes
  \/ IsChainTypeSupported

SpecFactory == InitFactory /\ [][NextFactory]_vars

\* ------------------------------------------------------------------------
\* The diff engine, fetch by fetch
\* ------------------------------------------------------------------------
\* A promise of a balance fetch.
Slot(state, raw, error) == [state |-> state, raw |-> raw, error |-> error]
Unissued == Slot("unissued", 0, NoError)
PendingSlot == Slot("pending", 0, NoError)
Fulfilled(raw) == Slot("fulfilled", raw, NoError)
Rejected(error) == Slot("rejected", 0, error)

\* The node: its head height, the balance of the address at every height,
\* and which of the three requests of one computation it fails.
EngineNodes ==
  [height : Heights, balanceAt : [Heights -> Balances],
   fails : SUBSET {"height", "current", "previous"}]

\* The error a failed request rejects with.
RequestError(which) ==
  CASE which = "height" -> [code |-> "ETIMEDOUT", message |-> "connect ETIMEDOUT"]
    [] which = "current" -> [code |-> "ECONNREFUSED", message |-> "connect ECONNREFUSED"]
    [] OTHER -> [code |-> "NONE", message |-> "execution reverted"]

promiseAll_IgnoreRejection(current, previous) ==
  IF current.state \in {"fulfilled", "rejected"} /\ previous.state \in {"fulfilled", "rejected"}
    THEN Fulfilled(0)
  ELSE PendingSlot

\* Promise.all over the two fetches: rejected with the first rejection,
\* fulfilled once both are.
promiseAll(current, previous) ==
  IF current.state = "rejected" THEN Rejected(current.error)
  ELSE IF previous.state = "rejected" THEN Rejected(previous.error)
  ELSE IF current.state = "fulfilled" /\ previous.state = "fulfilled" THEN Fulfilled(0)
  ELSE PendingSlot

\* The block tag of each of the two fetches.
blockTag(which, currentBlock, back) ==
  IF which = "current" THEN currentBlock ELSE Max(0, currentBlock - back)

\* getNativeBalanceDiff(address, blocksBack) was called and awaits
\* getCurrentBlock().
InitEngine ==
  /\ NoProcess
  /\ \E back \in 1..2, node \in EngineNodes :
       fnCall = [fn |-> "getNativeBalanceDiff", blocksBack |-> back, node |-> node]
  /\ fnResult = Pending
  /\ awaiting = [stage |-> "getCurrentBlock", current |-> Unissued, previous |-> Unissued,
                 order |-> <<>>]

\* getCurrentBlock() answered: both balance fetches are issued.
GetCurrentBlockOk ==
  /\ awaiting.stage = "getCurrentBlock"
  /\ "height" \notin fnCall.node.fails
  /\ awaiting' = [awaiting EXCEPT !.stage = "Promise.all", !.current = PendingSlot,
                                  !.previous = PendingSlot]
  /\ UNCHANGED <<cfgVars, processVars, fnCall, fnResult>>

GetCurrentBlockFail ==
  /\ awaiting.stage = "getCurrentBlock"
  /\ "height" \in fnCall.node.fails
  /\ awaiting' = [awaiting EXCEPT !.stage = "done"]
  /\ fnResult' = [value |-> Thrown(RequestError("height").message)]
  /\ UNCHANGED <<cfgVars, processVars, fnCall>>

\* One of the two fetches settled: Promise.all may settle, and with it the
\* computation.  A fetch that settles after the computation threw is
\* ignored.
BalanceFetchSettles(which, slot) ==
  LET now == [awaiting EXCEPT ![which] = slot, !.order = Append(@, which)]
      all == promiseAll(now.current, now.previous)
      node == fnCall.node
  IN /\ awaiting[which].state = "pending"
     /\ awaiting' = [now EXCEPT !.stage = IF all.state = "pending" THEN @ ELSE "done"]
     /\ IF fnResult # Pending \/ all.state = "pending" THEN UNCHANGED fnResult
        ELSE IF all.state = "rejected"
          THEN fnResult' = [value |-> Thrown(all.error.message)]
        ELSE fnResult' =
               [value |-> getNativeBalanceDiff(node.height, fnCall.blocksBack,
                                               Snapshot(now.current.raw),
                                               Snapshot(now.previous.raw))]
     /\ UNCHANGED <<cfgVars, processVars, fnCall>>

BalanceFetchOk ==
  /\ awaiting.stage \in {"Promise.all", "done"}
  /\ \E which \in {"current", "previous"} :
       /\ which \notin fnCall.node.fails
       /\ BalanceFetchSettles(which,
            Fulfilled(fnCall.node.balanceAt[blockTag(which, fnCall.node.height,
                                                     fnCall.blocksBack)]))

BalanceFetchFail ==
  /\ awaiting.stage \in {"Promise.all", "done"}
  /\ \E which \in {"current", "previous"} :
       /\ which \in fnCall.node.fails
       /\ BalanceFetchSettles(which, Rejected(RequestError(which)))

NextEngine ==
  \/ GetCurrentBlockOk
  \/ GetCurrentBlockFail
  \/ BalanceFetchOk
  \/ BalanceFetchFail

SpecEngine == InitEngine /\ [][NextEngine]_vars

\* ------------------------------------------------------------------------
\* getNativeBalance of the Solana and TON adapters, request by request
\* ------------------------------------------------------------------------
\* The slotTag argument: 'latest' or a slot (seqno) number.
SlotTags == {[latest |-> TRUE, slot |-> 0]} \cup {[latest |-> FALSE, slot |-> h] : h \in Heights}

\* The node: the latest-state balance, what it answers to a query with
\* minContextSlot, whether it rejects that query, and whether it fails the
\* latest-state query.
BalanceNodes ==
  [latest : Balances, atSlot : Balances, rejectsHistorical : BOOLEAN, failsLatest : BOOLEAN]

HistoricalRejection == [code |-> "NONE", message |-> "Minimum context slot has not been reached"]
LatestFailure == [code |-> "ECONNREFUSED", message |-> "connect ECONNREFUSED"]

\* The first request getNativeBalance awaits.
firstRequest(adapter, slotTag) ==
  IF adapter = "solana" /\ ~slotTag.latest THEN "getBalance(minContextSlot)" ELSE "getBalance"

InitBalance ==
  /\ NoProcess
  /\ \E adapter \in {"solana", "ton"}, slotTag \in SlotTags, node \in BalanceNodes :
       /\ fnCall = [fn |-> "getNativeBalance", adapter |-> adapter, slotTag |-> slotTag,
                    node |-> node]
       /\ awaiting = [stage |-> firstRequest(adapter, slotTag)]
  /\ fnResult = Pending

SolanaAdapter_catchHistorical_Rethrow(error) == [stage |-> "done"]

\* The catch block around the historical query: the next request awaited.
SolanaAdapter_catchHistorical(error) == [stage |-> "getBalance"]

HistoricalBalanceOk ==
  /\ awaiting.stage = "getBalance(minContextSlot)"
  /\ ~fnCall.node.rejectsHistorical
  /\ awaiting' = [stage |-> "done"]
  /\ fnResult' = [value |-> Snapshot(fnCall.node.atSlot)]
  /\ UNCHANGED <<cfgVars, processVars, fnCall>>

HistoricalBalanceRejected ==
  /\ awaiting.stage = "getBalance(minContextSlot)"
  /\ fnCall.node.rejectsHistorical
  /\ awaiting' = SolanaAdapter_catchHistorical(HistoricalRejection)
  /\ IF awaiting'.stage = "done"
       THEN fnResult' = [value |-> Thrown(HistoricalRejection.message)]
       ELSE UNCHANGED fnResult
  /\ UNCHANGED <<cfgVars, processVars, fnCall>>

LatestBalanceOk ==
  /\ awaiting.stage = "getBalance"
  /\ ~fnCall.node.failsLatest
  /\ awaiting' = [stage |-> "done"]
  /\ fnResult' = [value |-> Snapshot(fnCall.node.latest)]
  /\ UNCHANGED <<cfgVars, processVars, fnCall>>

LatestBalanceFail ==
  /\ awaiting.stage = "getBalance"
  /\ fnCall.node.failsLatest
  /\ awaiting' = [stage |-> "done"]
  /\ fnResult' = [value |-> Thrown(LatestFailure.message)]
  /\ UNCHANGED <<cfgVars, processVars, fnCall>>

NextBalance ==
  \/ HistoricalBalanceOk
  \/ HistoricalBalanceRejected
  \/ LatestBalanceOk
  \/ LatestBalanceFail

SpecBalance == InitBalance /\ [][NextBalance]_vars

\* ------------------------------------------------------------------------
\* Properties of the single-address run
\* ------------------------------------------------------------------------
\* How a finished single run ended, read off the state.
InputRejected == pc = "exited" /\ connectCalls = 0
ConnectFailed == pc = "exited" /\ connectCalls = 1 /\ engineCalls = 0
FetchFailed == pc = "exited" /\ lastError # NoError
DiffFetched == pc = "exited" /\ balanceDiff # NoDiff

C2_DiffArithmetic ==
  /\ balanceDiff # NoDiff =>
       /\ balanceDiff.diff = balanceDiff.current.raw - balanceDiff.previous.raw
       /\ balanceDiff.previous.raw > balanceDiff.current.raw => balanceDiff.diff < 0
  /\ \A i \in 1..Len(emitted) :
       emitted[i].type = "result" =>
         (emitted[i].diffSign = "negative"
            <=> emitted[i].balanceDiff.previous.raw > emitted[i].balanceDiff.current.raw)

C2_Witness ==
  /\ pc = "exited"
  /\ balanceDiff # NoDiff
  /\ balanceDiff.previous.raw > balanceDiff.current.raw
  /\ \E i \in 1..Len(emitted) : emitted[i].type = "result" /\ emitted[i].diffSign = "negative"

\* C3: for a record produced by a CLI run with lookback L at height H,
\* previousBlock = max(0, H - L): never negative, 0 whenever L > H, at most
\* currentBlock, and equal to currentBlock only when currentBlock is 0.
C3_HeightClamping ==
  balanceDiff # NoDiff =>
    LET H == balanceDiff.currentBlock
        P == balanceDiff.previousBlock
        L == opts.blocks.n
    IN /\ H = chainHeight
       /\ P = (IF H - L >= 0 THEN H - L ELSE 0)
       /\ P >= 0
       /\ L > H => P = 0
       /\ P <= H
       /\ P = H => H = 0

C3_Witness ==
  /\ balanceDiff # NoDiff
  /\ opts.blocks.n > balanceDiff.currentBlock
  /\ balanceDiff.currentBlock > 0
  /\ balanceDiff.previousBlock = 0

\* ------------------------------------------------------------------------
\* Properties of the batch run
\* ------------------------------------------------------------------------
BatchRun == Len(addresses) > 1 /\ ~opts.watch

\* The batch ran on accepted options and a reachable node.
BatchServed ==
  /\ BatchRun
  /\ pc = "exited"
  /\ networkConfig # NoNetwork
  /\ validBlocks(opts.blocks)
  /\ ~createAdapterThrows(networkConfig)
  /\ ~ConnectFailed

\* C9: a batch run always yields a result with one entry per input
\* address; a malformed address's entry carries an error while the other
\* entries carry diff data (when their own fetches succeed).
C9_BatchIsolation ==
  BatchServed =>
    \E k \in 1..Len(emitted) :
      /\ emitted[k].type = "batch"
      /\ Len(emitted[k].addresses) = Len(addresses)
      /\ \A i \in 1..Len(addresses) :
           /\ emitted[k].addresses[i].address = addresses[i].id
           /\ ~addresses[i].wellFormed => emitted[k].addresses[i].error # ""
           /\ emitted[k].addresses[i].error = "" =>
                emitted[k].addresses[i].balanceDiff # NoDiff

\* C10: a batch run exits 0 only if every address's query succeeded and no
\* address triggered a threshold.
C10_BatchExitCode ==
  (BatchRun /\ pc = "exited" /\ exitStatus = 0) =>
    /\ results # <<>>
    /\ \A i \in 1..Len(results) :
         ~hasError(results[i]) /\ ~alertTriggered(results[i].balanceDiff)

\* ------------------------------------------------------------------------
\* Properties of watch mode
\* ------------------------------------------------------------------------
PollEntries == {i \in 1..Len(emitted) : emitted[i].type = "poll"}
AlertEntries == {i \in PollEntries : emitted[i].alert}
ErrorEntries == {i \in PollEntries : emitted[i].error # ""}

\* The run was ended by the exit path of a tick (not by a signal).
EndedByTick ==
  /\ pc = "exited"
  /\ emitted # <<>>
  /\ emitted[Len(emitted)].type = "watch_end"
  /\ emitted[Len(emitted)].reason = ""

\* An early-exit policy fired during the run.
ExitOnDiffFired == opts.exitOnDiff /\ AlertEntries # {}
ExitOnErrorFired == opts.exitOnError /\ \E i \in ErrorEntries : emitted[i].isRpcError

\* The run ended because the poll count was reached (state Exhausted): a
\* tick ended it and no early-exit policy fired.
Exhausted == EndedByTick /\ maxPolls.finite /\ ~ExitOnDiffFired /\ ~ExitOnErrorFired

\* A tick ended the run with the poll count reached and without
\* --exit-on-error firing.
CountEnded == EndedByTick /\ countReached(pollCount) /\ ~ExitOnErrorFired

\* The entry after entry i is the watch_end written by the same tick.
EndsRun(i) ==
  /\ i < Len(emitted)
  /\ emitted[i + 1].type = "watch_end"
  /\ emitted[i + 1].reason = ""

\* C4: with --count N and no early-exit policy firing, a watch run performs
\* exactly N polls (N diff-engine invocations, N emitted poll results) and
\* then terminates, with exit code 0 if no poll triggered an alert.
C4_BoundedRun ==
  Exhausted =>
    /\ engineCalls = maxPolls.n
    /\ Cardinality(PollEntries) = maxPolls.n
    /\ AlertEntries = {} => exitStatus = 0

\* C5: when a bounded watch run ends because the poll count is reached, its
\* exit code is 1 if and only if at least one poll of the run triggered an
\* alert, and 0 otherwise.
C5_ExhaustedExitCode ==
  CountEnded =>
    /\ exitStatus \in {0, 1}
    /\ exitStatus = 1 <=> AlertEntries # {}

C5_Witness ==
  /\ CountEnded
  /\ exitStatus = 1
  /\ \E i \in AlertEntries : \E j \in PollEntries : j > i /\ ~emitted[j].alert
  /\ ~emitted[Len(emitted) - 1].alert

\* C6: with --exit-on-diff, the first poll whose alert triggers ends the run
\* with exit code 1 at the end of its tick: its result is followed by the
\* final summary only and no tick is started after it, whether or not the
\* configured count has been reached.
C6_ExitOnDiff ==
  opts.exitOnDiff =>
    \A i \in AlertEntries :
      /\ pc = "exited"
      /\ exitStatus = 1
      /\ EndsRun(i)
      /\ i + 1 = Len(emitted)
      /\ emitted[i + 1].exitCode = 1
      /\ emitted[i + 1].polls = pollCount

C6_Witness ==
  /\ opts.exitOnDiff
  /\ AlertEntries # {}
  /\ pc = "exited"
  /\ ~countReached(pollCount)
  /\ Cardinality(PollEntries) > 1

\* C7 as stated: a failed poll terminates the run if and only if
\* --exit-on-error is set and the error is RPC-classified (exit code 2);
\* otherwise the scheduler continues.
C7_FailedPollOriginal ==
  \A i \in ErrorEntries :
    /\ EndsRun(i) <=> (opts.exitOnError /\ emitted[i].isRpcError)
    /\ EndsRun(i) => exitStatus = 2

\* C7 amended: a failed poll ends the run with exit code 2 if and only if
\* --exit-on-error is set and the error is RPC-classified; otherwise its
\* error is emitted as the poll's result and the scheduler continues, unless
\* the number of polls started has reached --count: then the run ends with
\* the exit code accumulated so far (0 or 1).
C7_FailedPoll ==
  \A i \in ErrorEntries :
    IF opts.exitOnError /\ emitted[i].isRpcError
      THEN EndsRun(i) /\ emitted[i + 1].exitCode = 2 /\ exitStatus = 2
      ELSE /\ EndsRun(i) <=> countReached(emitted[i].poll)
           /\ EndsRun(i) => (exitStatus \in {0, 1} /\ emitted[i + 1].exitCode = exitStatus)

C7_Witness ==
  /\ opts.exitOnError
  /\ exitStatus = 2
  /\ \E i \in ErrorEntries : \E j \in ErrorEntries :
       i < j /\ ~emitted[i].isRpcError /\ emitted[j].isRpcError

\* C8: an interrupt at any point of watch mode, the initial tick included,
\* cancels the timer, emits the final summary and exits with code 130.
C8_Interrupt ==
  (pc = "exited" /\ exitStatus = EXIT_SIGINT) =>
    /\ intervalId # "armed"
    /\ emitted[Len(emitted)].type = "watch_end"
    /\ emitted[Len(emitted)].exitCode = EXIT_SIGINT

\* C11: a watch run exits 0 only if no threshold was triggered and all of
\* its queries succeeded: a run in which some poll failed never exits 0.
C11_WatchExitZero ==
  (opts.watch /\ pc = "exited" /\ exitStatus = 0) =>
    /\ AlertEntries = {}
    /\ ErrorEntries = {}

\* ------------------------------------------------------------------------
\* Properties of threshold parsing and evaluation
\* ------------------------------------------------------------------------
OptionStrings == {opts.alertIfDiff, opts.alertPct}
HasDigit(s) == \E i \in 1..Len(s) : s[i] \in Digits
\* The string starts with none of the characters operators are made of.
NoOperator(s) == s # <<>> /\ s[1] \notin {">", "<", "="}
\* Strings no reading of the threshold syntax accepts: no digit at all, or
\* a character that is neither a digit nor one of > < = - .
Malformed(s) ==
  /\ s # <<>>
  /\ \/ ~HasDigit(s)
     \/ \E i \in 1..Len(s) : s[i] \notin Digits \cup {">", "<", "=", "-", "."}

\* C12: parseThreshold on a string without an operator returns what it
\* returns on the same string prefixed with ">"; on malformed input it
\* returns null (it has no other outcome than null or a spec with one of the
\* four operators); a null absolute spec never triggers an alert, and the
\* run then ends as it would without the option: 1 if the percentage spec
\* triggered, else 0.
C12_ThresholdDefaulting ==
  /\ \A s \in OptionStrings :
       /\ NoOperator(s) => parseThreshold(s) = parseThreshold(<<">">> \o s)
       /\ Malformed(s) => parseThreshold(s) = NullThreshold
       /\ parseThreshold(s) # NullThreshold =>
            parseThreshold(s).operator \in {">", ">=", "<", "<="}
  /\ (threshold = NullThreshold /\ balanceDiff # NoDiff) =>
       /\ ~absTriggered(balanceDiff)
       /\ pc = "exited"
       /\ exitStatus = (IF pctTriggered(balanceDiff) THEN EXIT_DIFF ELSE EXIT_OK)
       /\ emitted[Len(emitted)].type = "result"

\* A malformed --alert-if-diff with a rising balance, and an operator-less
\* --alert-pct that parsed: the run exits 0.
C12_Witness ==
  /\ Malformed(opts.alertIfDiff)
  /\ NoOperator(opts.alertPct)
  /\ pctThreshold # NullThreshold
  /\ pctThreshold.operator = ">"
  /\ balanceDiff # NoDiff
  /\ balanceDiff.diff > 0
  /\ exitStatus = EXIT_OK

\* C13: the percentage evaluation returns false whenever the previous
\* balance is 0, for every diff value and every percentage spec (every
\* operator and value the option string parses to); a run whose previous
\* balance is 0 alerts only through the absolute spec.
C13_PercentageZeroGuard ==
  /\ \A d \in (-MaxBalance)..MaxBalance :
       ~checkPercentageThreshold(d, 0, networkConfig.nativeDecimals, pctThreshold)
  /\ (balanceDiff # NoDiff /\ balanceDiff.previous.raw = 0) =>
       /\ ~pctTriggered(balanceDiff)
       /\ exitStatus = (IF absTriggered(balanceDiff) THEN EXIT_DIFF ELSE EXIT_OK)

\* A percentage spec "> v" or ">= v", a balance that rose from 0: exit 0.
C13_Witness ==
  /\ pctThreshold # NullThreshold
  /\ pctThreshold.operator \in {">", ">="}
  /\ balanceDiff # NoDiff
  /\ balanceDiff.previous.raw = 0
  /\ balanceDiff.diff > 0
  /\ pc = "exited"
  /\ exitStatus = EXIT_OK

\* ------------------------------------------------------------------------
\* Properties of the CLI in any mode
\* ------------------------------------------------------------------------
EitherTriggered(bd) == absTriggered(bd) \/ pctTriggered(bd)
\* The polls that emitted a record; the last of them emitted balanceDiff.
RecordEntries == {i \in PollEntries : emitted[i].error = ""}
LastRecordEntry == CHOOSE i \in RecordEntries : \A j \in RecordEntries : j <= i

\* C14: in single-run, batch and watch mode alike the alert decision for a
\* diff is (absolute spec triggered) OR (percentage spec triggered): the
\* single result and its exit code, every address entry of a batch and the
\* batch's own flag and exit code, and every watch poll carry exactly that
\* decision; with neither spec configured nothing ever triggers.
C14_AlertDecision ==
  /\ \A k \in 1..Len(emitted) :
       /\ emitted[k].type = "result" =>
            /\ emitted[k].alert = EitherTriggered(emitted[k].balanceDiff)
            /\ exitStatus = (IF emitted[k].alert THEN EXIT_DIFF ELSE EXIT_OK)
       /\ emitted[k].type = "batch" =>
            /\ \A i \in 1..Len(emitted[k].addresses) :
                 emitted[k].addresses[i].error = "" =>
                   emitted[k].addresses[i].alert =
                     EitherTriggered(emitted[k].addresses[i].balanceDiff)
            /\ emitted[k].alert =
                 \E i \in 1..Len(emitted[k].addresses) :
                   /\ emitted[k].addresses[i].error = ""
                   /\ EitherTriggered(emitted[k].addresses[i].balanceDiff)
            /\ exitStatus = (IF emitted[k].alert THEN EXIT_DIFF ELSE EXIT_OK)
  /\ (opts.watch /\ RecordEntries # {}) =>
       emitted[LastRecordEntry].alert = EitherTriggered(balanceDiff)
  /\ (threshold = NullThreshold /\ pctThreshold = NullThreshold) =>
       \A k \in 1..Len(emitted) :
         emitted[k].type \in {"result", "batch", "poll"} => ~emitted[k].alert

\* A watch poll that alerted through the percentage spec alone while the
\* absolute spec is configured too.
C14_Witness ==
  /\ opts.watch
  /\ threshold # NullThreshold
  /\ pctThreshold # NullThreshold
  /\ RecordEntries # {}
  /\ emitted[LastRecordEntry].alert
  /\ pctTriggered(balanceDiff)
  /\ ~absTriggered(balanceDiff)

\* ------------------------------------------------------------------------
\* Properties of getTokenBalances
\* ------------------------------------------------------------------------
RECURSIVE SumAmounts(_, _)
SumAmounts(accounts, mint) ==
  IF accounts = <<>> THEN 0
  ELSE (IF Head(accounts).mint = mint THEN Head(accounts).amount ELSE 0)
       + SumAmounts(Tail(accounts), mint)

\* The wallet's on-chain balance of configured token i.
OnChainBalance(i) ==
  IF fnCall.adapter = "solana"
    THEN SumAmounts(fnCall.node.accounts, fnCall.tokens[i].address)
    ELSE fnCall.node[i].raw

\* The node answered every lookup the adapter can make.
NodeAnswers ==
  IF fnCall.adapter = "solana" THEN ~fnCall.node.fails
  ELSE \A i \in 1..Len(fnCall.tokens) : ~fnCall.node[i].fails

Listed(i) ==
  \E k \in 1..Len(fnResult.value) : fnResult.value[k].symbol = fnCall.tokens[i].symbol

\* C15: for every adapter (EVM, Solana, TON), on a node that answers, a
\* configured token whose on-chain balance is 0 never appears in the list
\* getTokenBalances returns, and one whose balance is 1 smallest unit
\* always appears.
C15_TokenFiltering ==
  (fnResult # Pending /\ NodeAnswers) =>
    \A i \in 1..Len(fnCall.tokens) :
      /\ OnChainBalance(i) = 0 => ~Listed(i)
      /\ OnChainBalance(i) = 1 => Listed(i)

\* ------------------------------------------------------------------------
\* Further properties of watch mode
\* ------------------------------------------------------------------------
\* C16: an invocation with --watch and more than one resolved address never
\* executes a poll and terminates with exit code 1.
C16_WatchSingleAddress ==
  (opts.watch /\ Len(addresses) > 1) =>
    /\ engineCalls = 0
    /\ pollCount = 0
    /\ PollEntries = {}
    /\ pc = "exited" => exitStatus = 1

\* ------------------------------------------------------------------------
\* Properties of the JSON output
\* ------------------------------------------------------------------------
ObjectTypes(S) == {emitted[k].type : k \in {i \in 1..Len(emitted) : emitted[i].type \in S}}

\* C17: every JSON object the CLI emits (single result, batch result,
\* error object, list-networks, watch_start, each watch poll, watch_end)
\* carries a schemaVersion field equal to the schema version constant.
C17_SchemaVersion ==
  \A k \in 1..Len(emitted) :
    /\ "schemaVersion" \in DOMAIN emitted[k]
    /\ emitted[k].schemaVersion = SCHEMA_VERSION
    /\ emitted[k].type \in
         {"result", "batch", "error", "networks", "watch_start", "poll", "watch_end"}

\* A watch stream with a failed poll, a successful one and the summary.
C17_Witness ==
  /\ pc = "exited"
  /\ ErrorEntries # {}
  /\ RecordEntries # {}
  /\ ObjectTypes({"watch_start", "watch_end"}) = {"watch_start", "watch_end"}

\* The run entered watch mode and has ended.
WatchStreamEnded ==
  /\ pc = "exited"
  /\ \E k \in 1..Len(emitted) : emitted[k].type = "watch_start"

\* C18: the stream of a watch run is one watch_start object first, then
\* one object per poll, then one watch_end object last; watch_end.polls is
\* the number of poll objects emitted before it and watch_end.exitCode is
\* the exit code the process terminates with.
C18_WatchStream ==
  WatchStreamEnded =>
    /\ Len(emitted) >= 2
    /\ emitted[1].type = "watch_start"
    /\ emitted[Len(emitted)].type = "watch_end"
    /\ \A k \in 2..(Len(emitted) - 1) : emitted[k].type = "poll"
    /\ emitted[Len(emitted)].polls = Cardinality(PollEntries)
    /\ emitted[Len(emitted)].exitCode = exitStatus

\* ------------------------------------------------------------------------
\* Properties of the formatter
\* ------------------------------------------------------------------------
Returned(fn) == fnCall.fn = fn /\ fnResult # Pending

\* C19: in JSON output diffSign is "negative" exactly when the diff is
\* below 0 and "positive" otherwise (0 included), and native.diff is the
\* formatted magnitude (no sign in it); for 1.0 native unit now and 0.98
\* before, at 18 decimals, diffSign is "positive" and native.diff is "0.02".
C19_SignAndMagnitude ==
  Returned("buildJsonOutput") =>
    LET native == fnResult.value
        cur == fnCall.current.m
        prev == fnCall.previous.m
    IN /\ native.diffSign = (IF cur < prev THEN "negative" ELSE "positive")
       /\ \A i \in 1..Len(native.diff) : native.diff[i] # "-"
       /\ native.diff = formatBigInt(BigInt(IF cur < prev THEN prev - cur ELSE cur - prev,
                                             fnCall.current.e), fnCall.decimals)
       /\ (cur = 100 /\ prev = 98 /\ fnCall.current.e = 16 /\ fnCall.decimals = 18) =>
            /\ native.diffSign = "positive"
            /\ native.diff = <<"0", ".", "0", "2">>

C19_Witness ==
  /\ Returned("buildJsonOutput")
  /\ fnCall.current = BigInt(100, 16)
  /\ fnCall.previous = BigInt(98, 16)
  /\ fnCall.decimals = 18
  /\ fnResult.value.diff = <<"0", ".", "0", "2">>

\* Position of the decimal point in a formatted amount, 0 when it has none.
PointAt(str) ==
  IF \E i \in 1..Len(str) : str[i] = "." THEN CHOOSE i \in 1..Len(str) : str[i] = "." ELSE 0

\* Leading zeros dropped, one digit at least kept.
RECURSIVE stripLeadingZeros(_)
stripLeadingZeros(str) ==
  IF Len(str) > 1 /\ str[1] = "0" THEN stripLeadingZeros(Tail(str)) ELSE str

\* A formatted amount read back as a fixed-point decimal: the digits of the
\* raw integer it denotes at the given decimals.
parseFixed(str, decimals) ==
  LET p == PointAt(str)
      whole == IF p = 0 THEN str ELSE SubSeq(str, 1, p - 1)
      frac == IF p = 0 THEN <<>> ELSE SubSeq(str, p + 1, Len(str))
  IN stripLeadingZeros(whole \o frac \o zeros(decimals - Len(frac)))

\* C20: formatting a raw amount yields a decimal string without trailing
\* fractional zeros, and reading the string back at the same decimals
\* gives the raw amount again.
C20_FormatRoundTrip ==
  Returned("formatBigInt") =>
    LET str == fnResult.value
    IN /\ PointAt(str) # 0 => str[Len(str)] # "0"
       /\ parseFixed(str, fnCall.decimals) = BigIntToString(fnCall.value)

\* ------------------------------------------------------------------------
\* Properties of the adapter factory
\* ------------------------------------------------------------------------
IsAdapterOf(result, family) == "chainType" \in DOMAIN result /\ result.chainType = family

\* C21: every chain family of the registry (evm, solana, ton) is listed as
\* supported and createAdapter returns an adapter of the descriptor's
\* family; a descriptor without a family yields an EVM adapter; an
\* unregistered family raises an error.
C21_AdapterFactory ==
  /\ Returned("getSupportedChainTypes") => RegistryFamilies \subseteq fnResult.value
  /\ Returned("isChainTypeSupported") =>
       (fnCall.chainType \in RegistryFamilies => fnResult.value = TRUE)
  /\ Returned("createAdapter") =>
       LET family == fnCall.networkConfig.chainType
       IN IF family \in RegistryFamilies THEN IsAdapterOf(fnResult.value, family)
          ELSE IF family = "undefined" THEN IsAdapterOf(fnResult.value, "evm")
          ELSE "threw" \in DOMAIN fnResult.value

\* ------------------------------------------------------------------------
\* Properties of the diff engine
\* ------------------------------------------------------------------------
Settled(slot) == slot.state \in {"fulfilled", "rejected"}
ReturnedRecord == fnResult # Pending /\ "diff" \in DOMAIN fnResult.value
ReturnedError == fnResult # Pending /\ "threw" \in DOMAIN fnResult.value

\* C22: within one diff computation both balance fetches are issued before
\* either completes; a record is built only after both completed
\* successfully and is the same whatever the completion order; if either
\* fetch fails the computation fails with that error and returns no record.
C22_JoinOfFetches ==
  LET node == fnCall.node
      cur == node.balanceAt[node.height]
      prev == node.balanceAt[Max(0, node.height - fnCall.blocksBack)]
  IN /\ (Settled(awaiting.current) \/ Settled(awaiting.previous)) =>
          (awaiting.current.state # "unissued" /\ awaiting.previous.state # "unissued")
     /\ ReturnedRecord =>
          /\ awaiting.current.state = "fulfilled" /\ awaiting.previous.state = "fulfilled"
          /\ fnResult.value.current.raw = cur
          /\ fnResult.value.previous.raw = prev
          /\ fnResult.value.diff = cur - prev
     /\ (awaiting.current.state = "rejected" \/ awaiting.previous.state = "rejected") =>
          /\ ReturnedError
          /\ fnResult.value.threw \in
               {awaiting[which].error.message :
                  which \in {w \in {"current", "previous"} : awaiting[w].state = "rejected"}}
     /\ (awaiting.stage = "done" /\ awaiting.order # <<>>
           /\ "previous" \in node.fails /\ awaiting.order[1] = "previous") =>
          (ReturnedError /\ fnResult.value.threw = RequestError("previous").message)

\* The previous-height fetch completed first and the record was returned.
C22_Witness ==
  /\ ReturnedRecord
  /\ awaiting.order = <<"previous", "current">>
  /\ fnResult.value.diff # 0

\* ------------------------------------------------------------------------
\* Properties of the watch-mode scheduler
\* ------------------------------------------------------------------------
Interrupted == pc = "exited" /\ opts.watch /\ exitStatus = EXIT_SIGINT

\* C23: when an interrupt arrives while a watch tick is in flight, the
\* in-flight tick runs to completion and emits its poll result before the
\* final summary is emitted and the process terminates.
C23_InterruptAtTickBoundary ==
  Interrupted =>
    /\ inFlight = {}
    /\ emitted # <<>>
    /\ emitted[Len(emitted)].type = "watch_end"
    /\ Cardinality(PollEntries) = pollCount

WatchEnds(out) == Cardinality({k \in 1..Len(out) : out[k].type = "watch_end"})

\* C24: over every interleaving of tick completions, timer firings and
\* interrupts the final summary is emitted at most once, termination is
\* invoked at most once, and nothing (no timer tick in particular) runs
\* once termination has been invoked.
C24_TerminatesOnce ==
  [][/\ pc # "exited"
     /\ exitStatus = Running
     /\ WatchEnds(emitted') <= 1
     /\ pollCount' > pollCount => exitStatus' = Running]_vars

\* An interrupt ended a run while a tick was in flight.
C24_Witness ==
  /\ Interrupted
  /\ inFlight # {}
  /\ intervalId = "cleared"
  /\ WatchEnds(emitted) = 1

\* The poll objects emitted so far, in emission order.
PollObjects == SelectSeq(emitted, LAMBDA obj : obj.type = "poll")

\* C25: every watch tick that starts emits exactly one poll result, the
\* results come in the order the ticks started, and their poll numbers are
\* 1, 2, 3, ... without repeats or gaps.
C25_PollSequence ==
  /\ \A k \in 1..Len(PollObjects) : PollObjects[k].tick = k /\ PollObjects[k].poll = k
  /\ (pc = "exited" /\ opts.watch) => Len(PollObjects) = pollCount

\* The run ended in its first tick.
EndedInFirstTick ==
  /\ pc = "exited"
  /\ pollCount = 1
  /\ emitted # <<>>
  /\ emitted[Len(emitted)].type = "watch_end"
  /\ emitted[Len(emitted)].reason = ""

\* C26: on watch start the first poll is executed at once and completes
\* before the periodic timer is armed; the timer is armed only if that
\* poll did not end the run.
C26_InitialTick ==
  /\ pc = "watch_initial" =>
       /\ intervalId = "null"
       /\ pollCount = 1 /\ inFlight = {1}
       /\ emitted = <<[schemaVersion |-> SCHEMA_VERSION, type |-> "watch_start"]>>
  /\ intervalId # "null" =>
       /\ Len(PollObjects) >= 1
       /\ PollObjects[1].tick = 1
       /\ 1 \notin inFlight
  /\ EndedInFirstTick => intervalId = "null"

C26_Witness ==
  /\ pc = "watch_polling"
  /\ intervalId = "armed"
  /\ pollCount = 1
  /\ Len(PollObjects) = 1

\* ------------------------------------------------------------------------
\* Further properties of getTokenBalances
\* ------------------------------------------------------------------------
\* The lookup of configured token i was made and answered: per token on
\* EVM, one request for all token accounts on Solana, none on TON.
LookupSucceeded(i) ==
  CASE fnCall.adapter = "evm" -> ~fnCall.node[i].fails
    [] fnCall.adapter = "solana" -> ~fnCall.node.fails
    [] OTHER -> FALSE

ReturnedBalance(raw) ==
  fnResult # Pending /\ "raw" \in DOMAIN fnResult.value /\ fnResult.value.raw = raw

\* C28: the Solana adapter's balance query at a slot never propagates the
\* node's rejection of the historical query: it returns the latest-state
\* balance instead and fails only if the latest-state query fails too; the
\* TON adapter returns the latest-state balance for every height.
C28_HistoricalFallback ==
  Returned("getNativeBalance") =>
    LET node == fnCall.node
    IN /\ ReturnedError => (node.failsLatest /\ fnResult.value.threw = LatestFailure.message)
       /\ (fnCall.adapter = "solana" /\ ~fnCall.slotTag.latest /\ node.rejectsHistorical
             /\ ~node.failsLatest) => ReturnedBalance(node.latest)
       /\ (fnCall.adapter = "ton" /\ ~node.failsLatest) => ReturnedBalance(node.latest)

\* The historical query was rejected and the latest-state balance returned.
C28_Witness ==
  /\ Returned("getNativeBalance")
  /\ fnCall.adapter = "solana"
  /\ ~fnCall.slotTag.latest
  /\ fnCall.node.rejectsHistorical
  /\ fnCall.node.latest # fnCall.node.atSlot
  /\ ReturnedBalance(fnCall.node.latest)

\* ------------------------------------------------------------------------
\* Properties of main's start
\* ------------------------------------------------------------------------
ConnectionFailed ==
  \E k \in 1..Len(emitted) :
    emitted[k].type = "error" /\ emitted[k].error = "Connection failed"

\* C29: in every CLI run exactly one adapter is constructed, connect() is
\* called on it at most once, and no I/O-bearing adapter method is invoked
\* before connect() completed successfully, or at all when connect() fails.
C29_AdapterLifecycle ==
  /\ adapters <= 1
  /\ pc = "exited" => adapters = 1
  /\ connectCalls <= 1
  /\ engineCalls > 0 => (connectCalls = 1 /\ pc \notin {"main", "connecting"})
  /\ ConnectionFailed => engineCalls = 0

\* The options or targets carry a fatal input error.
FatalInput ==
  \/ networkConfig = NoNetwork
  \/ ~validBlocks(opts.blocks)
  \/ \E i \in 1..Len(addresses) : ~addresses[i].wellFormed

FailedFast ==
  /\ pc \in {"main", "exited"}
  /\ pc = "exited" => exitStatus = 1
  /\ connectCalls = 0
  /\ engineCalls = 0

\* C30 as stated: with an unknown network, an invalid lookback value or a
\* malformed address among the targets, the process exits with code 1
\* before connect() or any other RPC call is made.
C30_FailFast_AsStated == FatalInput => FailedFast

\* C30 amended: the same, for every run without --list-networks (which
\* prints the registry and exits 0 before any option is validated).
C30_FailFast == (FatalInput /\ ~opts.listNetworks) => FailedFast

\* A batch run on a known network whose second address is malformed.
C30_Witness ==
  /\ pc = "exited"
  /\ ~opts.listNetworks
  /\ networkConfig # NoNetwork /\ validBlocks(opts.blocks)
  /\ Len(addresses) = 2
  /\ addresses[1].wellFormed /\ ~addresses[2].wellFormed
  /\ adapters = 1
  /\ exitStatus = 1

\* ------------------------------------------------------------------------
\* Properties of the alert object
\* ------------------------------------------------------------------------
\* The alert objects of the emitted results, each with the record it was
\* computed from: the single result, the batch items, the batch output.
AlertObjects ==
  {[object |-> emitted[k].alertObject, decision |-> emitted[k].alert,
    by |-> triggeredBy(emitted[k].balanceDiff)] :
     k \in {i \in 1..Len(emitted) : emitted[i].type = "result"}}
  \cup
  UNION {{[object |-> emitted[k].addresses[i].alertObject,
           decision |-> emitted[k].addresses[i].alert,
           by |-> triggeredBy(emitted[k].addresses[i].balanceDiff)] :
            i \in {j \in 1..Len(emitted[k].addresses) : ~hasError(emitted[k].addresses[j])}} :
         k \in {i \in 1..Len(emitted) : emitted[i].type = "batch"}}

\* C31: a JSON result object contains an alert object if and only if a
\* threshold option was configured; the object carries the configured
\* threshold strings, a triggered boolean equal to the combined alert
\* decision, and which spec triggered it (absolute, else percentage, else
\* none).
C31_AlertObject ==
  \A a \in AlertObjects :
    /\ a.object # NoAlertObject <=> (opts.alertIfDiff # <<>> \/ opts.alertPct # <<>>)
    /\ a.object # NoAlertObject =>
         /\ a.object.threshold = opts.alertIfDiff
         /\ a.object.thresholdPct = opts.alertPct
         /\ a.object.triggered = a.decision
         /\ "triggeredBy" \in DOMAIN a.object
         /\ a.object.triggeredBy = a.by

\* ------------------------------------------------------------------------
\* Properties of the error envelope
\* ------------------------------------------------------------------------
\* The invocation ended in an error (no threshold is configured, so exit
\* codes 1 and 2 are error codes).
EndedInError ==
  /\ pc = "exited"
  /\ exitStatus \in {EXIT_DIFF, EXIT_RPC_ERROR}
  /\ opts.alertIfDiff = <<>> /\ opts.alertPct = <<>>

\* C32: in JSON mode every invocation that ends in an error emits the
\* structured error envelope (an object with schemaVersion and error) on
\* standard output and nothing else.
C32_ErrorEnvelope ==
  EndedInError =>
    /\ Len(emitted) = 1
    /\ emitted[1].type = "error"
    /\ emitted[1].schemaVersion = SCHEMA_VERSION
    /\ emitted[1].error # ""

\* ------------------------------------------------------------------------
\* Further properties of the watch-mode scheduler
\* ------------------------------------------------------------------------
\* C33: in watch mode at most one tick is in flight at any time: the timer
\* never starts a tick while a previous tick's diff computation has not
\* completed.
C33_OneTickInFlight == Cardinality(inFlight) <= 1

\* This step emits the result of a failed poll.
FailedPollStep ==
  /\ Len(emitted') > Len(emitted)
  /\ emitted'[Len(emitted) + 1].type = "poll"
  /\ emitted'[Len(emitted) + 1].error # ""

\* C34: a failed watch poll leaves the last-seen balance and the
\* accumulated exit code unchanged, except that the exit code becomes 2
\* when --exit-on-error fires; an alert recorded by an earlier poll is
\* never cleared by a later failed or clean poll.
C34_FailedPollFrame ==
  [][/\ FailedPollStep =>
          /\ lastBalance' = lastBalance
          /\ exitCode' # exitCode =>
               /\ opts.exitOnError
               /\ emitted'[Len(emitted) + 1].isRpcError
               /\ exitCode' = EXIT_RPC_ERROR
     /\ (exitCode = EXIT_DIFF /\ exitCode' # EXIT_DIFF) =>
          (FailedPollStep /\ opts.exitOnError /\ exitCode' = EXIT_RPC_ERROR)]_vars

\* A poll failed after an alert was recorded and the run goes on with the
\* alert's exit code and the balance of the earlier poll.
C34_Witness ==
  /\ pc = "watch_polling"
  /\ exitCode = EXIT_DIFF
  /\ lastBalance # NoBalance
  /\ AlertEntries # {}
  /\ emitted[Len(emitted)].type = "poll"
  /\ emitted[Len(emitted)].error # ""

\* --exit-on-error fired on the last poll of an ended run: the stream ends
\* with the poll's RPC-classified error and the watch_end of its tick.
ExitOnErrorEndedRun ==
  /\ pc = "exited"
  /\ opts.exitOnError
  /\ Len(emitted) >= 2
  /\ emitted[Len(emitted)].type = "watch_end"
  /\ emitted[Len(emitted)].reason = ""
  /\ emitted[Len(emitted) - 1].type = "poll"
  /\ emitted[Len(emitted) - 1].error # ""
  /\ emitted[Len(emitted) - 1].isRpcError

\* C35: when --exit-on-error fires on a poll of a watch run in which an
\* earlier poll triggered an alert, the run terminates with exit code 2,
\* not 1, in watch_end.exitCode and in the process exit code.
C35_RpcErrorOverridesAlert ==
  (ExitOnErrorEndedRun /\ AlertEntries # {}) =>
    /\ exitStatus = EXIT_RPC_ERROR
    /\ emitted[Len(emitted)].exitCode = EXIT_RPC_ERROR

C35_Witness ==
  /\ ExitOnErrorEndedRun
  /\ AlertEntries # {}
  /\ ~opts.exitOnDiff
  /\ exitStatus = EXIT_RPC_ERROR

\* C36: error classification is the same in single-run mode and in watch
\* mode: an error that isRpcError classifies as RPC-related makes a
\* single-address run exit with code 2, any other error with code 1.
C36_SameClassification ==
  (pc = "exited" /\ lastError # NoError) =>
    exitStatus = (IF isRpcError(lastError) THEN EXIT_RPC_ERROR ELSE EXIT_DIFF)

\* C37: the list returned by getTokenBalances contains only tokens of the
\* configured list and at most one entry per configured token; the EVM
\* adapter returns them in configuration order, the Solana adapter for any
\* set of token accounts the wallet owns.
C37_OneEntryPerToken ==
  (fnCall.fn = "getTokenBalances" /\ fnResult # Pending) =>
    LET list == fnResult.value
        configured == {fnCall.tokens[i].symbol : i \in 1..Len(fnCall.tokens)}
    IN /\ \A i \in 1..Len(list) : list[i].symbol \in configured
       /\ \A i, j \in 1..Len(list) : list[i].symbol = list[j].symbol => i = j
       /\ fnCall.adapter = "evm" =>
            \A i, j \in 1..Len(list) : i < j => list[i].symbol < list[j].symbol

\* The batch output of an ended batch run.
BatchEmitted ==
  /\ pc = "exited"
  /\ emitted # <<>>
  /\ emitted[Len(emitted)].type = "batch"

\* C38: in a batch result the entries appear in the order of the input
\* addresses regardless of the order in which the per-address fetches
\* complete, and summary.successCount + summary.errorCount =
\* summary.totalAddresses = the number of input addresses.
C38_BatchOrder ==
  BatchEmitted =>
    LET output == emitted[Len(emitted)]
    IN /\ Len(output.addresses) = Len(addresses)
       /\ \A k \in 1..Len(addresses) : output.addresses[k].address = addresses[k].id
       /\ output.summary.successCount + output.summary.errorCount
            = output.summary.totalAddresses
       /\ output.summary.totalAddresses = Len(addresses)

\* The fetch of a later address settled before the fetch of an earlier
\* one, and one fetch failed.
C38_Witness ==
  /\ BatchEmitted
  /\ reordered
  /\ emitted[Len(emitted)].summary.errorCount = 1
  /\ emitted[Len(emitted)].summary.successCount >= 1

\* C39: with --count N for a positive integer N, every RPC call completing
\* and the timer firing, a watch run eventually terminates, whether its
\* polls succeed or fail.
C39_CountTerminates ==
  (pc = "watch_initial" /\ maxPolls.finite /\ maxPolls.n >= 1) ~> (pc = "exited")

\* A run of two polls, one failed and one successful, was ended by the
\* count of the second.
C39_Witness ==
  /\ EndedByTick
  /\ maxPolls = Num(2)
  /\ pollCount = 2
  /\ ~ExitOnDiffFired
  /\ ~ExitOnErrorFired
  /\ ErrorEntries # {}
  /\ PollEntries \ ErrorEntries # {}

====
